---- MODULE Spec2Model ----
(***************************************************************************)
(* The Minion Manager of coriolis (coriolis/minion_manager/rpc/server.py): *)
(* the store of minion pools and minion machines, the operations of        *)
(* MinionManagerServerEndpoint, and the background task flows they launch. *)
(***************************************************************************)
EXTENDS FiniteSets, Integers, Sequences, TLC

(***************************************************************************)
(* Bounds of the model.                                                    *)
(***************************************************************************)
\* number of machine ids (uuid4) that can be drawn in one behaviour
MaxMachines == 3
\* number of background flows in flight at the same time
MaxFlows == 2
\* the clock (timeutils.utcnow) runs from 1 to MaxTime
MaxTime == 2

(***************************************************************************)
(* Identifiers and constants of the program.                               *)
(***************************************************************************)
PoolIds == {"p1", "p2"}
ActionIds == {"a1", "a2"}
InstanceIds == {"vm1", "vm2"}
MachineIds == 1 .. MaxMachines
FlowSlots == 1 .. MaxFlows
\* Python's None
None == "None"
\* no machine id (a key that is absent from an allocations dict)
NoId == 0
\* a last_used_at that was never set (NULL)
NeverUsed == 0

MINION_POOL_STATUS_DEALLOCATED == "DEALLOCATED"
MINION_POOL_STATUS_POOL_MAINTENANCE == "POOL_MAINTENANCE"
MINION_POOL_STATUS_VALIDATING_INPUTS == "VALIDATING_INPUTS"
MINION_POOL_STATUS_ALLOCATING_SHARED_RESOURCES == "ALLOCATING_SHARED_RESOURCES"
MINION_POOL_STATUS_ALLOCATING_MACHINES == "ALLOCATING_MACHINES"
MINION_POOL_STATUS_ALLOCATED == "ALLOCATED"
MINION_POOL_STATUS_DEALLOCATING_MACHINES == "DEALLOCATING_MACHINES"
MINION_POOL_STATUS_DEALLOCATING_SHARED_RESOURCES == "DEALLOCATING_SHARED_RESOURCES"
MINION_POOL_STATUS_ERROR == "ERROR"

MINION_MACHINE_STATUS_UNINITIALIZED == "UNINITIALIZED"
MINION_MACHINE_STATUS_AVAILABLE == "AVAILABLE"
MINION_MACHINE_STATUS_IN_USE == "IN_USE"
MINION_MACHINE_STATUS_HEALTHCHECKING == "HEALTHCHECKING"
MINION_MACHINE_STATUS_DEALLOCATING == "DEALLOCATING"
MINION_MACHINE_STATUS_ERROR_DEPLOYING == "ERROR_DEPLOYING"
MINION_MACHINE_STATUS_ERROR == "ERROR"

PROVIDER_PLATFORM_SOURCE == "source"
PROVIDER_PLATFORM_DESTINATION == "destination"
OS_TYPE_LINUX == "linux"
OS_TYPE_WINDOWS == "windows"
EndpointIds == {"e1", "e2"}

TRANSFER_ACTION_TYPE_REPLICA == "replica"
TRANSFER_ACTION_TYPE_MIGRATION == "migration"

(***************************************************************************)
(* The state.                                                              *)
(***************************************************************************)
VARIABLES
    pools,       \* the minion pool rows of the store, by pool id
    machines,    \* the minion machine rows of the store, by machine id
    flows,       \* the task flows running in the background
    calls,       \* the allocate_minion_machines_for_* call of each action
    releases,    \* the deallocate_minion_machine* call of each action
    out,         \* what the last step sent to its caller or to the Conductor
    now,         \* the clock
    cron,        \* the jobs registered with the service's cron engine
    locks        \* the pool locks: who holds the lock of each pool

vars == <<pools, machines, flows, calls, releases, out, now, cron, locks>>

\* a pool id with no row in the store
NoPool == [status |-> None, minimum_minions |-> 0, maximum_minions |-> 0,
           minion_max_idle_time |-> 0, endpoint_id |-> None,
           platform |-> None, os_type |-> None]
\* a machine id with no row in the store
NoMachine == [pool_id |-> None, status |-> None, allocated_action |-> None,
              last_used_at |-> NeverUsed]
\* a store with no machine row
NoMachines == [m \in MachineIds |-> NoMachine]
NoAllocations == [i \in {} |-> NoId]
\* no transfer action
NoAction == [type |-> None, instances |-> <<>>,
             origin_minion_pool_id |-> None,
             destination_minion_pool_id |-> None,
             instance_osmorphing_minion_pool_mappings |-> <<>>,
             include_transfer_minions |-> FALSE,
             include_osmorphing_minions |-> FALSE]

\* nothing sent; request is the transfer action a message is about
NoOut == [kind |-> None, action |-> None, error |-> None,
          allocations |-> NoAllocations, request |-> NoAction]

PoolExists(p) == pools[p].status # None
MachineExists(m) == machines[m].status # None

(***************************************************************************)
(* The store (coriolis.db.api), as section 4.1 of the specification        *)
(* describes it.                                                           *)
(***************************************************************************)
\* minion_pool.minion_machines: the machine rows of a pool, in id order
PoolMachines(mchs, p) == {m \in MachineIds : mchs[m].pool_id = p}

\* db_api.get_minion_machines(ctxt, allocated_action_id)
ActionMachines(mchs, a) == {m \in MachineIds : mchs[m].allocated_action = a}

\* db_api.set_minion_pool_status
SetPoolStatus(pls, p, status) == [pls EXCEPT ![p].status = status]

\* db_api.set_minion_machine_status: a missing row is left missing
SetMachineStatus(mchs, m, status) ==
    IF mchs[m].status = None THEN mchs
    ELSE [mchs EXCEPT ![m].status = status]

\* db_api.set_minion_machines_allocation_statuses: one transaction; it
\* cannot complete when a listed row is missing
CanSetAllocationStatuses(mchs, ids) == \A m \in ids : mchs[m].status # None

SetAllocationStatuses(mchs, ids, action, status, refresh, t) ==
    [m \in MachineIds |->
        IF m \in ids
        THEN [mchs[m] EXCEPT !.status = status,
                             !.allocated_action = action,
                             !.last_used_at = IF refresh THEN t ELSE @]
        ELSE mchs[m]]

\* db_api.add_minion_machine
AddMachine(mchs, m, p, status, action) ==
    [mchs EXCEPT ![m] = [pool_id |-> p, status |-> status,
                         allocated_action |-> action,
                         last_used_at |-> NeverUsed]]

\* db_api.delete_minion_machine
DeleteMachines(mchs, ids) ==
    [m \in MachineIds |-> IF m \in ids THEN NoMachine ELSE mchs[m]]

(***************************************************************************)
(* Task flows: a flow is a linear list of steps; a step is one task or an  *)
(* unordered set of per-machine subflows.                                  *)
(***************************************************************************)
NoFlow == [kind |-> None, pool |-> None, action |-> None, steps |-> <<>>,
           pos |-> 1, request |-> NoAction]
\* the kind of the main allocation flow of an action
ActionAllocation == "action_allocation"

\* UpdateMinionPoolStatusTask(pool, status, status_to_revert_to)
UpdateMinionPoolStatusTask(status, revert) ==
    [t |-> "update_status", status |-> status, revert |-> revert,
     subflows |-> {}, allocations |-> NoAllocations]

\* a pool-level worker task: ValidateMinionPoolOptionsTask,
\* AllocateSharedPoolResourcesTask, DeallocateSharedPoolResourcesTask
PoolTask(t) ==
    [t |-> t, status |-> None, revert |-> None, subflows |-> {},
     allocations |-> NoAllocations]

\* unordered_flow.Flow holding per-machine subflows
UnorderedFlow(subflows) ==
    [t |-> "unordered", status |-> None, revert |-> None,
     subflows |-> subflows, allocations |-> NoAllocations]

\* ReportMinionAllocationFailureFor{Replica,Migration}Task(action id)
ReportMinionAllocationFailureTask ==
    [t |-> "report_failure", status |-> None, revert |-> None,
     subflows |-> {}, allocations |-> NoAllocations]

\* ConfirmMinionAllocationFor{Replica,Migration}Task(action id, allocations)
ConfirmMinionAllocationTask(allocations) ==
    [t |-> "confirm", status |-> None, revert |-> None, subflows |-> {},
     allocations |-> allocations]

\* AllocateMinionMachineTask(pool, machine, platform, allocate_to_action)
AllocateMinionMachineTask(p, m, action) ==
    [pool |-> p, m |-> m, tasks |-> <<"allocate">>, realloc |-> <<>>,
     to_action |-> action, on_success |-> None]

\* DeallocateMinionMachineTask(pool, machine, platform)
DeallocateMinionMachineTask(p, m) ==
    [pool |-> p, m |-> m, tasks |-> <<"deallocate">>, realloc |-> <<>>,
     to_action |-> None, on_success |-> None]

\* a healthcheck flow whose reallocation subflow only deallocates
HealthcheckFlowWithoutAllocation(p, m, action, status_on_success) ==
    [pool |-> p, m |-> m, tasks |-> <<"healthcheck">>,
     realloc |-> <<"deallocate">>,
     to_action |-> action, on_success |-> status_on_success]

\* the graph flow of a healthcheck whose failure leads, through the
\* decider, to the linear reallocation subflow of the same machine id
HealthcheckFlowForMinionMachine(p, m, action, status_on_success) ==
    [pool |-> p, m |-> m, tasks |-> <<"healthcheck">>,
     realloc |-> <<"deallocate", "allocate">>,
     to_action |-> action, on_success |-> status_on_success]

\* the steps a flow has not finished yet
RemainingSteps(f) == {f.steps[i] : i \in f.pos .. Len(f.steps)}

\* the machine ids a flow still holds
FlowMachineIds(f) ==
    (UNION {{sf.m : sf \in st.subflows} : st \in RemainingSteps(f)}
     \cup UNION {UNION {{st.allocations[i].origin_minion_id,
                         st.allocations[i].destination_minion_id,
                         st.allocations[i].osmorphing_minion_id} :
                        i \in DOMAIN st.allocations} :
                 st \in RemainingSteps(f)})
    \ {NoId}

\* an allocation flow whose first status task names no status to revert to
MinionPoolAllocationFlowRevertingNothing(p, ids) ==
    LET machines_flow == {AllocateMinionMachineTask(p, m, None) : m \in ids}
    IN  [kind |-> "pool_allocation", pool |-> p, action |-> None, pos |-> 1,
         request |-> NoAction,
         steps |->
            <<UpdateMinionPoolStatusTask(
                  MINION_POOL_STATUS_VALIDATING_INPUTS, None),
              PoolTask("validate_options"),
              UpdateMinionPoolStatusTask(
                  MINION_POOL_STATUS_ALLOCATING_SHARED_RESOURCES, None),
              PoolTask("allocate_shared")>>
            \o (IF machines_flow # {}
                THEN <<UpdateMinionPoolStatusTask(
                           MINION_POOL_STATUS_ALLOCATING_MACHINES, None),
                       UnorderedFlow(machines_flow)>>
                ELSE <<>>)
            \o <<UpdateMinionPoolStatusTask(
                     MINION_POOL_STATUS_ALLOCATED, None)>>]

\* _get_minion_pool_allocation_flow: ids are the uuid4() of the new machines
MinionPoolAllocationFlow(p, ids) ==
    LET machines_flow == {AllocateMinionMachineTask(p, m, None) : m \in ids}
    IN  [kind |-> "pool_allocation", pool |-> p, action |-> None, pos |-> 1,
         request |-> NoAction,
         steps |->
            <<UpdateMinionPoolStatusTask(
                  MINION_POOL_STATUS_VALIDATING_INPUTS,
                  MINION_POOL_STATUS_ERROR),
              PoolTask("validate_options"),
              UpdateMinionPoolStatusTask(
                  MINION_POOL_STATUS_ALLOCATING_SHARED_RESOURCES, None),
              PoolTask("allocate_shared")>>
            \o (IF machines_flow # {}
                THEN <<UpdateMinionPoolStatusTask(
                           MINION_POOL_STATUS_ALLOCATING_MACHINES, None),
                       UnorderedFlow(machines_flow)>>
                ELSE <<>>)
            \o <<UpdateMinionPoolStatusTask(
                     MINION_POOL_STATUS_ALLOCATED, None)>>]

\* a deallocation flow that deallocates no machine
MinionPoolDeallocationFlowOfNoMachine(p, ids) ==
    [kind |-> "pool_deallocation", pool |-> p, action |-> None, pos |-> 1,
     request |-> NoAction,
     steps |->
        <<UpdateMinionPoolStatusTask(
              MINION_POOL_STATUS_DEALLOCATING_SHARED_RESOURCES,
              MINION_POOL_STATUS_ERROR),
          PoolTask("deallocate_shared"),
          UpdateMinionPoolStatusTask(MINION_POOL_STATUS_DEALLOCATED, None)>>]

\* _get_minion_pool_deallocation_flow: ids are minion_pool.minion_machines
MinionPoolDeallocationFlow(p, ids) ==
    LET machines_flow == {DeallocateMinionMachineTask(p, m) : m \in ids}
    IN  [kind |-> "pool_deallocation", pool |-> p, action |-> None, pos |-> 1,
         request |-> NoAction,
         steps |->
            (IF machines_flow # {}
             THEN <<UpdateMinionPoolStatusTask(
                        MINION_POOL_STATUS_DEALLOCATING_MACHINES,
                        MINION_POOL_STATUS_ERROR),
                    UnorderedFlow(machines_flow)>>
             ELSE <<>>)
            \o <<UpdateMinionPoolStatusTask(
                     MINION_POOL_STATUS_DEALLOCATING_SHARED_RESOURCES,
                     MINION_POOL_STATUS_ERROR),
                 PoolTask("deallocate_shared"),
                 UpdateMinionPoolStatusTask(
                     MINION_POOL_STATUS_DEALLOCATED, None)>>]

(***************************************************************************)
(* The TaskFlow runner and the task library (coriolis.taskflow.runner,     *)
(* coriolis.minion_manager.rpc.tasks), as sections 4.4 and 4.5 of the      *)
(* specification describe them.                                            *)
(***************************************************************************)
\* a flow with the steps that have nothing to execute passed over: an
\* empty unordered flow, and the failure reporting task, which acts on
\* revert only; a flow with no step left is over
RECURSIVE Settle(_)
Settle(f) ==
    IF f.pos > Len(f.steps) THEN NoFlow
    ELSE IF \/ f.steps[f.pos].t = "report_failure"
            \/ f.steps[f.pos].t = "unordered" /\ f.steps[f.pos].subflows = {}
         THEN Settle([f EXCEPT !.pos = @ + 1])
         ELSE f

\* the flow after its current task has succeeded
AdvanceFlow(f) == Settle([f EXCEPT !.pos = @ + 1])

\* the steps of a flow that have executed
ExecutedSteps(f) == {i \in 1 .. Len(f.steps) : i < f.pos}

\* status tasks whose revert leaves the status of the pool as it is
PoolStatusNotReverted(f, current) == current

\* the status the reverted UpdateMinionPoolStatusTasks leave the pool in:
\* tasks revert in reverse order, each to its status_to_revert_to
RevertedPoolStatus(f, current) ==
    LET reverting == {i \in ExecutedSteps(f) :
                         /\ f.steps[i].t = "update_status"
                         /\ f.steps[i].revert # None}
    IN  IF reverting = {} THEN current
        ELSE f.steps[CHOOSE i \in reverting :
                         \A j \in reverting : i <= j].revert

\* whether the failure of a flow reaches a failure reporting task
ReportsFailure(f) ==
    \E i \in ExecutedSteps(f) : f.steps[i].t = "report_failure"

\* the lowest free flow slot
FreeSlot(fls) ==
    CHOOSE s \in FlowSlots :
        fls[s] = NoFlow /\ \A t \in FlowSlots : t < s => fls[t] # NoFlow

CanLaunch(fls) == \E s \in FlowSlots : fls[s] = NoFlow

\* TaskFlowRunner.run_flow_in_background
RunFlowInBackground(fls, f) ==
    IF Settle(f) = NoFlow THEN fls
    ELSE [fls EXCEPT ![FreeSlot(fls)] = Settle(f)]

\* a task of flow s failed: the flow stops and its executed tasks revert
FailFlow(s, mchs) ==
    LET f == flows[s]
    IN  /\ flows' = [flows EXCEPT ![s] = NoFlow]
        /\ machines' = mchs
        /\ pools' = IF f.pool # None /\ PoolExists(f.pool)
                    THEN SetPoolStatus(pools, f.pool,
                             RevertedPoolStatus(f, pools[f.pool].status))
                    ELSE pools
        /\ out' = IF ReportsFailure(f)
                  THEN [NoOut EXCEPT !.kind = "allocation_failure",
                                     !.action = f.action,
                                     !.request = f.request]
                  ELSE NoOut

\* UpdateMinionPoolStatusTask.execute
RunUpdateStatusTask(s) ==
    LET f == flows[s]
    IN  /\ f # NoFlow
        /\ f.steps[f.pos].t = "update_status"
        /\ pools' = IF PoolExists(f.pool)
                    THEN SetPoolStatus(pools, f.pool, f.steps[f.pos].status)
                    ELSE pools
        /\ flows' = [flows EXCEPT ![s] = AdvanceFlow(f)]
        /\ out' = NoOut
        /\ UNCHANGED <<machines, calls, releases, now, cron, locks>>

\* ValidateMinionPoolOptionsTask, AllocateSharedPoolResourcesTask and
\* DeallocateSharedPoolResourcesTask: the worker succeeds or fails
RunPoolTask(s, ok) ==
    LET f == flows[s]
    IN  /\ f # NoFlow
        /\ f.steps[f.pos].t \in
               {"validate_options", "allocate_shared", "deallocate_shared"}
        /\ IF ok
           THEN /\ flows' = [flows EXCEPT ![s] = AdvanceFlow(f)]
                /\ out' = NoOut
                /\ UNCHANGED <<pools, machines>>
           ELSE FailFlow(s, machines)
        /\ UNCHANGED <<calls, releases, now, cron, locks>>

\* ConfirmMinionAllocationFor{Replica,Migration}Task.execute
RunConfirmTask(s) ==
    LET f == flows[s]
    IN  /\ f # NoFlow
        /\ f.steps[f.pos].t = "confirm"
        /\ out' = [NoOut EXCEPT !.kind = "allocation_confirmed",
                                !.action = f.action,
                                !.allocations = f.steps[f.pos].allocations,
                                !.request = f.request]
        /\ flows' = [flows EXCEPT ![s] = AdvanceFlow(f)]
        /\ UNCHANGED <<pools, machines, calls, releases, now, cron, locks>>

\* the flow once the head task of its subflow sf has succeeded
AfterSubflowTask(f, sf) ==
    LET others == f.steps[f.pos].subflows \ {sf}
        rest == IF Len(sf.tasks) = 1 THEN others
                ELSE others \cup {[sf EXCEPT !.tasks = Tail(@)]}
    IN  Settle([f EXCEPT !.steps[f.pos].subflows = rest])

\* the row AllocateMinionMachineTask leaves: it updates the machine's row,
\* which it creates when the machine has none
AllocatedMachineRow(mchs, sf, status) ==
    LET row == IF mchs[sf.m].status = None
               THEN [pool_id |-> sf.pool, status |-> None,
                     allocated_action |-> None, last_used_at |-> NeverUsed]
               ELSE mchs[sf.m]
    IN  [row EXCEPT !.status = status,
                    !.allocated_action =
                        IF sf.to_action # None THEN sf.to_action ELSE @]

\* AllocateMinionMachineTask.execute
RunAllocateMachineTask(s, sf, ok) ==
    LET f == flows[s]
    IN  /\ Head(sf.tasks) = "allocate"
        /\ IF ok
           THEN /\ machines' = [machines EXCEPT ![sf.m] =
                       AllocatedMachineRow(machines, sf,
                           IF sf.to_action # None
                           THEN MINION_MACHINE_STATUS_IN_USE
                           ELSE MINION_MACHINE_STATUS_AVAILABLE)]
                /\ flows' = [flows EXCEPT ![s] = AfterSubflowTask(f, sf)]
                /\ out' = NoOut
                /\ UNCHANGED pools
           ELSE FailFlow(s, [machines EXCEPT ![sf.m] =
                       AllocatedMachineRow(machines, sf,
                           MINION_MACHINE_STATUS_ERROR_DEPLOYING)])

\* DeallocateMinionMachineTask.execute: a missing machine is tolerated
RunDeallocateMachineTask(s, sf, ok) ==
    LET f == flows[s]
    IN  /\ Head(sf.tasks) = "deallocate"
        /\ IF ok
           THEN /\ machines' = DeleteMachines(machines, {sf.m})
                /\ flows' = [flows EXCEPT ![s] = AfterSubflowTask(f, sf)]
                /\ out' = NoOut
                /\ UNCHANGED pools
           ELSE FailFlow(s, machines)

\* a healthcheck whose decider lets the reallocation subflow run when the
\* healthcheck succeeded, not when it failed
RunHealthcheckTaskReallocatingOnSuccess(s, sf, ok) ==
    LET f == flows[s]
    IN  /\ Head(sf.tasks) = "healthcheck"
        /\ IF ~ok
           THEN /\ machines' = machines
                /\ flows' = [flows EXCEPT ![s] = AfterSubflowTask(f, sf)]
           ELSE /\ machines' = SetMachineStatus(machines, sf.m, sf.on_success)
                /\ flows' = [flows EXCEPT ![s].steps[f.pos].subflows =
                       (@ \ {sf}) \cup {[sf EXCEPT !.tasks = sf.realloc]}]
        /\ out' = NoOut
        /\ UNCHANGED pools

\* HealthcheckMinionMachineTask.execute with fail_on_error=False, and the
\* decider on the edge to the reallocation subflow
RunHealthcheckTask(s, sf, ok) ==
    LET f == flows[s]
    IN  /\ Head(sf.tasks) = "healthcheck"
        /\ IF ok
           THEN /\ machines' = SetMachineStatus(machines, sf.m, sf.on_success)
                /\ flows' = [flows EXCEPT ![s] = AfterSubflowTask(f, sf)]
           ELSE /\ machines' = machines
                /\ flows' = [flows EXCEPT ![s].steps[f.pos].subflows =
                       (@ \ {sf}) \cup {[sf EXCEPT !.tasks = sf.realloc]}]
        /\ out' = NoOut
        /\ UNCHANGED pools

\* one task of an unordered flow runs; the tasks run in any order
RunMachineTask(s, ok) ==
    /\ flows[s] # NoFlow
    /\ flows[s].steps[flows[s].pos].t = "unordered"
    /\ \E sf \in flows[s].steps[flows[s].pos].subflows :
          \/ RunAllocateMachineTask(s, sf, ok)
          \/ RunDeallocateMachineTask(s, sf, ok)
          \/ RunHealthcheckTask(s, sf, ok)
    /\ UNCHANGED <<calls, releases, now, cron, locks>>

(***************************************************************************)
(* Calls in progress.                                                      *)
(***************************************************************************)
\* no allocate_minion_machines_for_* call in progress
\* (before is the machine rows of the store when the call was made)
NoCall == [pc |-> "idle", action |-> NoAction, blocks |-> <<>>,
           allocations |-> NoAllocations, subflows |-> {}, error |-> None,
           todo |-> <<>>, before |-> NoMachines]

\* no operation; a pool lock nobody holds: a lock that is held names the
\* operation that holds it and where that operation was when it entered
\* the with block
NoOperation == [op |-> None, action |-> None]

NoHolder == [by |-> NoOperation, entered |-> <<None, 0, 0>>]

\* no deallocate_minion_machines_for_action call in progress
NoRelease == [pc |-> "idle", todo |-> <<>>]

\* the values of a dict
Values(f) == {f[k] : k \in DOMAIN f}

\* the machine ids of a list of per-pool machine lists
TodoMachineIds(todo) ==
    UNION {todo[i].delete \cup todo[i].release : i \in DOMAIN todo}

\* the machine ids of instance_machine_allocations
AllocationIds(allocations) ==
    UNION {{allocations[i].origin_minion_id,
            allocations[i].destination_minion_id,
            allocations[i].osmorphing_minion_id} : i \in DOMAIN allocations}
    \ {NoId}

\* the machine ids a call in progress holds
CallMachineIds(c) ==
    AllocationIds(c.allocations) \cup {sf.m : sf \in c.subflows}
    \cup TodoMachineIds(c.todo)

(***************************************************************************)
(* The pool operations of MinionManagerServerEndpoint.                     *)
(***************************************************************************)
\* the (minimum_minions, maximum_minions, minion_max_idle_time) a pool is
\* created with
PoolShapes ==
    {[minimum_minions |-> 0, maximum_minions |-> 2, minion_max_idle_time |-> 1],
     [minimum_minions |-> 1, maximum_minions |-> 2, minion_max_idle_time |-> 1],
     [minimum_minions |-> 1, maximum_minions |-> 1, minion_max_idle_time |-> 1]}

\* an exception that reaches the caller of an operation
Raise(error) == [NoOut EXCEPT !.kind = "error", !.error = error]

\* the machine ids some row, flow or call in progress refers to
UsedMachineIds ==
    {m \in MachineIds : MachineExists(m)}
    \cup UNION {FlowMachineIds(flows[s]) : s \in FlowSlots}
    \cup UNION {CallMachineIds(calls[a]) : a \in ActionIds}
    \cup UNION {TodoMachineIds(releases.for_action[a].todo) : a \in ActionIds}
    \cup {releases.machine}

\* str(uuid.uuid4()), n times: ids that nothing refers to
CanDrawIds(n) == Cardinality(MachineIds \ UsedMachineIds) >= n

NewMachineIds(n) ==
    LET free == MachineIds \ UsedMachineIds
    IN  {m \in free : Cardinality({k \in free : k < m}) < n}

\* create_minion_pool; p is the str(uuid.uuid4()) of the new pool
CreateMinionPool(p, shape, skip_allocation) ==
    /\ ~PoolExists(p)
    /\ pools' = [pools EXCEPT ![p] =
           [status |-> MINION_POOL_STATUS_DEALLOCATED,
            minimum_minions |-> shape.minimum_minions,
            maximum_minions |-> shape.maximum_minions,
            minion_max_idle_time |-> shape.minion_max_idle_time,
            endpoint_id |-> "e2",
            platform |-> PROVIDER_PLATFORM_DESTINATION,
            os_type |-> OS_TYPE_LINUX]]
    /\ IF skip_allocation
       THEN flows' = flows
       ELSE /\ CanLaunch(flows)
            /\ CanDrawIds(shape.minimum_minions)
            /\ flows' = RunFlowInBackground(flows,
                   MinionPoolAllocationFlow(p,
                       NewMachineIds(shape.minimum_minions)))
    /\ out' = NoOut
    /\ UNCHANGED <<machines, calls, releases, now, cron, locks>>

\* an allocate_minion_pool that does not restore the status of the pool
\* when run_flow_in_background raises
AllocateMinionPoolWithoutRestore(p, launched) ==
    /\ PoolExists(p)
    /\ LET current_status == pools[p].status
       IN  IF current_status # MINION_POOL_STATUS_DEALLOCATED
           THEN /\ out' = Raise("InvalidMinionPoolState")
                /\ UNCHANGED <<pools, flows>>
           ELSE /\ CanLaunch(flows)
                /\ CanDrawIds(pools[p].minimum_minions)
                /\ pools' = SetPoolStatus(pools, p,
                       MINION_POOL_STATUS_POOL_MAINTENANCE)
                /\ IF launched
                   THEN /\ flows' = RunFlowInBackground(flows,
                               MinionPoolAllocationFlow(p,
                                   NewMachineIds(pools[p].minimum_minions)))
                        /\ out' = NoOut
                   ELSE /\ flows' = flows
                        /\ out' = Raise("FlowLaunchError")
    /\ UNCHANGED <<machines, calls, releases, now, cron, locks>>

\* an allocate_minion_pool that also accepts a pool in status ERROR
AllocateMinionPoolAlsoFromError(p, launched) ==
    /\ PoolExists(p)
    /\ LET current_status == pools[p].status
       IN  IF current_status \notin {MINION_POOL_STATUS_DEALLOCATED,
                                     MINION_POOL_STATUS_ERROR}
           THEN /\ out' = Raise("InvalidMinionPoolState")
                /\ UNCHANGED <<pools, flows>>
           ELSE /\ CanLaunch(flows)
                /\ CanDrawIds(pools[p].minimum_minions)
                /\ IF launched
                   THEN /\ pools' = SetPoolStatus(pools, p,
                               MINION_POOL_STATUS_POOL_MAINTENANCE)
                        /\ flows' = RunFlowInBackground(flows,
                               MinionPoolAllocationFlow(p,
                                   NewMachineIds(pools[p].minimum_minions)))
                        /\ out' = NoOut
                   ELSE /\ pools' = pools
                        /\ flows' = flows
                        /\ out' = Raise("FlowLaunchError")
    /\ UNCHANGED <<machines, calls, releases, now, cron, locks>>

\* allocate_minion_pool; launched is whether run_flow_in_background returns
AllocateMinionPool(p, launched) ==
    /\ PoolExists(p)
    /\ LET current_status == pools[p].status
       IN  IF current_status # MINION_POOL_STATUS_DEALLOCATED
           THEN /\ out' = Raise("InvalidMinionPoolState")
                /\ UNCHANGED <<pools, flows>>
           ELSE /\ CanLaunch(flows)
                /\ CanDrawIds(pools[p].minimum_minions)
                /\ IF launched
                   THEN /\ pools' = SetPoolStatus(pools, p,
                               MINION_POOL_STATUS_POOL_MAINTENANCE)
                        /\ flows' = RunFlowInBackground(flows,
                               MinionPoolAllocationFlow(p,
                                   NewMachineIds(pools[p].minimum_minions)))
                        /\ out' = NoOut
                   ELSE /\ pools' = SetPoolStatus(
                               SetPoolStatus(pools, p,
                                   MINION_POOL_STATUS_POOL_MAINTENANCE),
                               p, current_status)
                        /\ flows' = flows
                        /\ out' = Raise("FlowLaunchError")
    /\ UNCHANGED <<machines, calls, releases, now, cron, locks>>

\* _check_pool_machines_in_use: the machines of the pool that are in use
PoolMachinesInUse(mchs, p) ==
    {m \in PoolMachines(mchs, p) :
        mchs[m].status \notin {MINION_MACHINE_STATUS_AVAILABLE,
                               MINION_MACHINE_STATUS_ERROR_DEPLOYING,
                               MINION_MACHINE_STATUS_ERROR}}

\* a deallocate_minion_pool that does not look at the machines of the pool
DeallocateMinionPoolWithMachinesInUse(p, force, launched) ==
    /\ PoolExists(p)
    /\ LET current_status == pools[p].status
       IN  IF current_status = MINION_POOL_STATUS_DEALLOCATED
           THEN /\ out' = NoOut
                /\ UNCHANGED <<pools, flows>>
           ELSE IF /\ current_status \notin
                          {MINION_POOL_STATUS_ALLOCATED,
                           MINION_POOL_STATUS_ERROR}
                   /\ ~force
           THEN /\ out' = Raise("InvalidMinionPoolState")
                /\ UNCHANGED <<pools, flows>>
           ELSE /\ CanLaunch(flows)
                /\ IF launched
                   THEN /\ pools' = SetPoolStatus(pools, p,
                               MINION_POOL_STATUS_POOL_MAINTENANCE)
                        /\ flows' = RunFlowInBackground(flows,
                               MinionPoolDeallocationFlow(p,
                                   PoolMachines(machines, p)))
                        /\ out' = NoOut
                   ELSE /\ pools' = pools
                        /\ flows' = flows
                        /\ out' = Raise("FlowLaunchError")
    /\ UNCHANGED <<machines, calls, releases, now, cron, locks>>

\* deallocate_minion_pool
DeallocateMinionPool(p, force, launched) ==
    /\ PoolExists(p)
    /\ LET current_status == pools[p].status
       IN  IF current_status = MINION_POOL_STATUS_DEALLOCATED
           THEN /\ out' = NoOut
                /\ UNCHANGED <<pools, flows>>
           ELSE IF \/ /\ current_status \notin
                             {MINION_POOL_STATUS_ALLOCATED,
                              MINION_POOL_STATUS_ERROR}
                      /\ ~force
                   \/ PoolMachinesInUse(machines, p) # {} /\ ~force
           THEN /\ out' = Raise("InvalidMinionPoolState")
                /\ UNCHANGED <<pools, flows>>
           ELSE /\ CanLaunch(flows)
                /\ IF launched
                   THEN /\ pools' = SetPoolStatus(pools, p,
                               MINION_POOL_STATUS_POOL_MAINTENANCE)
                        /\ flows' = RunFlowInBackground(flows,
                               MinionPoolDeallocationFlow(p,
                                   PoolMachines(machines, p)))
                        /\ out' = NoOut
                   ELSE /\ pools' = SetPoolStatus(
                               SetPoolStatus(pools, p,
                                   MINION_POOL_STATUS_POOL_MAINTENANCE),
                               p, current_status)
                        /\ flows' = flows
                        /\ out' = Raise("FlowLaunchError")
    /\ UNCHANGED <<machines, calls, releases, now, cron, locks>>

\* a set of machine ids in the order of minion_pool.minion_machines
RECURSIVE InOrder(_)
InOrder(ids) ==
    IF ids = {} THEN <<>>
    ELSE LET m == CHOOSE x \in ids : \A y \in ids : x <= y
         IN  <<m>> \o InOrder(ids \ {m})

\* an expiry that holds of every machine, whenever it was last used
MinionAlwaysExpired(machine, pool, t) == TRUE

\* minion_expired of _get_minion_pool_refresh_flow
MinionExpired(machine, pool, t) ==
    IF machine.last_used_at # NeverUsed
    THEN machine.last_used_at + pool.minion_max_idle_time <= t
    ELSE TRUE

\* a loop that deallocates every expired machine while the budget it starts
\* with is positive, and never counts the machines it has selected
RefreshPlanOfUncountedBudget(mchs, pool, ms, max_minions_to_deallocate, t) ==
    LET available == {m \in Values(ms) :
                         mchs[m].status = MINION_MACHINE_STATUS_AVAILABLE}
        expired == {m \in available :
                       /\ max_minions_to_deallocate > 0
                       /\ MinionExpired(mchs[m], pool, t)}
    IN  [deallocate |-> expired, healthcheck |-> available \ expired]

\* the loop of _get_minion_pool_refresh_flow over the machines ms, with
\* max_minions_to_deallocate deallocations left
RECURSIVE RefreshPlan(_, _, _, _, _)
RefreshPlan(mchs, pool, ms, max_minions_to_deallocate, t) ==
    IF ms = <<>> THEN [deallocate |-> {}, healthcheck |-> {}]
    ELSE LET m == Head(ms)
         IN  IF mchs[m].status # MINION_MACHINE_STATUS_AVAILABLE
             THEN RefreshPlan(mchs, pool, Tail(ms),
                              max_minions_to_deallocate, t)
             ELSE IF /\ max_minions_to_deallocate > 0
                     /\ MinionExpired(mchs[m], pool, t)
             THEN [RefreshPlan(mchs, pool, Tail(ms),
                               max_minions_to_deallocate - 1, t)
                       EXCEPT !.deallocate = @ \cup {m}]
             ELSE [RefreshPlan(mchs, pool, Tail(ms),
                               max_minions_to_deallocate, t)
                       EXCEPT !.healthcheck = @ \cup {m}]

\* _get_minion_pool_refresh_flow: what to do with each machine of the pool
MinionPoolRefreshPlan(mchs, pls, p, t) ==
    RefreshPlan(mchs, pls[p], InOrder(PoolMachines(mchs, p)),
                Cardinality(PoolMachines(mchs, p)) - pls[p].minimum_minions,
                t)

\* _get_minion_pool_refresh_flow: the flow
MinionPoolRefreshFlow(p, plan) ==
    [kind |-> "pool_refresh", pool |-> p, action |-> None, pos |-> 1,
     request |-> NoAction,
     steps |-> <<UnorderedFlow(
         {DeallocateMinionMachineTask(p, m) : m \in plan.deallocate}
         \cup {HealthcheckFlowForMinionMachine(
                   p, m, None, MINION_MACHINE_STATUS_AVAILABLE) :
               m \in plan.healthcheck})>>]

\* _get_minion_pool_refresh_flow: the statuses it writes to the store
RefreshedMachines(mchs, plan) ==
    [m \in MachineIds |->
        IF m \in plan.deallocate
        THEN [mchs[m] EXCEPT !.status = MINION_MACHINE_STATUS_DEALLOCATING]
        ELSE IF m \in plan.healthcheck
        THEN [mchs[m] EXCEPT !.status = MINION_MACHINE_STATUS_HEALTHCHECKING]
        ELSE mchs[m]]

\* refresh_minion_pool
RefreshMinionPool(p) ==
    /\ PoolExists(p)
    /\ IF pools[p].status # MINION_POOL_STATUS_ALLOCATED
       THEN /\ out' = Raise("InvalidMinionPoolState")
            /\ UNCHANGED <<machines, flows>>
       ELSE LET plan == MinionPoolRefreshPlan(machines, pools, p, now)
            IN  IF plan.deallocate \cup plan.healthcheck = {}
                THEN \* the formatting of the event's message raises
                     /\ out' = Raise("TypeError")
                     /\ UNCHANGED <<machines, flows>>
                ELSE /\ CanLaunch(flows)
                     /\ machines' = RefreshedMachines(machines, plan)
                     /\ flows' = RunFlowInBackground(flows,
                            MinionPoolRefreshFlow(p, plan))
                     /\ out' = NoOut
    /\ UNCHANGED <<pools, calls, releases, now, cron, locks>>

\* timeutils.utcnow() moves on
Tick ==
    /\ now < MaxTime
    /\ now' = now + 1
    /\ out' = NoOut
    /\ UNCHANGED <<pools, machines, flows, calls, releases, cron, locks>>

(***************************************************************************)
(* Minion machine reservations for transfer actions.                       *)
(***************************************************************************)
\* a _select_machine that returns the last machine that fits, not the first
SelectLastMachine(mchs, p, exclude) ==
    LET candidates ==
            {m \in PoolMachines(mchs, p) :
                /\ m \notin exclude
                /\ mchs[m].status = MINION_MACHINE_STATUS_AVAILABLE}
    IN  IF candidates = {} THEN NoId
        ELSE CHOOSE m \in candidates : \A k \in candidates : m >= k

\* a _select_machine that does not look at the status of the machines
SelectMachineOfAnyStatus(mchs, p, exclude) ==
    LET candidates == {m \in PoolMachines(mchs, p) : m \notin exclude}
    IN  IF candidates = {} THEN NoId
        ELSE CHOOSE m \in candidates : \A k \in candidates : m <= k

\* _select_machine: the first machine of the pool that is AVAILABLE and
\* not in exclude, or NoId
SelectMachine(mchs, p, exclude) ==
    LET candidates ==
            {m \in PoolMachines(mchs, p) :
                /\ m \notin exclude
                /\ mchs[m].status = MINION_MACHINE_STATUS_AVAILABLE}
    IN  IF candidates = {} THEN NoId
        ELSE CHOOSE m \in candidates : \A k \in candidates : m <= k

\* the loop over action_instances of
\* _make_minion_machine_allocation_subflow_for_action: the
\* instance_minion_allocations it builds from those made so far; free are
\* the ids uuid4() can still return
RECURSIVE InstanceMinionAllocations(_, _, _, _, _)
InstanceMinionAllocations(mchs, p, instances, allocations, free) ==
    IF instances = <<>>
    THEN [error |-> None, allocations |-> allocations]
    ELSE IF Head(instances) \in DOMAIN allocations
    THEN [error |-> "InvalidInput", allocations |-> allocations]
    ELSE LET minion_machine == SelectMachine(mchs, p, Values(allocations))
             unused == free \ Values(allocations)
         IN  IF minion_machine # NoId
             THEN InstanceMinionAllocations(mchs, p, Tail(instances),
                      allocations @@ (Head(instances) :> minion_machine),
                      free)
             ELSE IF unused = {}
             THEN [error |-> "OutOfIds", allocations |-> allocations]
             ELSE InstanceMinionAllocations(mchs, p, Tail(instances),
                      allocations @@ (Head(instances) :>
                          CHOOSE m \in unused : \A k \in unused : m <= k),
                      free)

\* the check of _make_minion_machine_allocation_subflow_for_action that
\* the pool can accommodate the instances
PoolCanAccommodate(mchs, pls, p, instances) ==
    LET currently_available_machines ==
            {m \in PoolMachines(mchs, p) :
                mchs[m].status = MINION_MACHINE_STATUS_AVAILABLE}
        extra_available_machine_slots ==
            pls[p].maximum_minions - Cardinality(PoolMachines(mchs, p))
    IN  Len(instances) <= Cardinality(currently_available_machines)
                              + extra_available_machine_slots

\* a reservation that adds its machines with no allocated_action
NewMinionMachineUnallocated(p, action_id) ==
    [pool_id |-> p, status |-> MINION_MACHINE_STATUS_UNINITIALIZED,
     allocated_action |-> None, last_used_at |-> NeverUsed]

\* the row of a machine a reservation adds to the store
NewMinionMachine(p, action_id) ==
    [pool_id |-> p, status |-> MINION_MACHINE_STATUS_UNINITIALIZED,
     allocated_action |-> action_id, last_used_at |-> NeverUsed]

\* _make_minion_machine_allocation_subflow_for_action: the error raised if
\* any, the store it leaves, the subflows and the allocations it returns
MachineAllocationSubflow(mchs, pls, p, action_id, instances, free, t) ==
    IF ~PoolCanAccommodate(mchs, pls, p, instances)
    THEN [error |-> "InvalidMinionPoolState", machines |-> mchs,
          subflows |-> {}, allocations |-> NoAllocations]
    ELSE LET made == InstanceMinionAllocations(
                         mchs, p, instances, NoAllocations, free)
             chosen == Values(made.allocations)
             existing_machines_to_allocate ==
                 {m \in chosen : mchs[m].status # None}
             machine_db_entries_to_add ==
                 {m \in chosen : mchs[m].status = None}
             marked == SetAllocationStatuses(
                           mchs, existing_machines_to_allocate, action_id,
                           MINION_MACHINE_STATUS_IN_USE, TRUE, t)
         IN  IF made.error # None
             THEN [error |-> made.error, machines |-> mchs,
                   subflows |-> {}, allocations |-> NoAllocations]
             ELSE [error |-> None,
                   machines |->
                       [m \in MachineIds |->
                           IF m \in machine_db_entries_to_add
                           THEN NewMinionMachine(p, action_id)
                           ELSE marked[m]],
                   subflows |->
                       {HealthcheckFlowForMinionMachine(
                            p, m, action_id, MINION_MACHINE_STATUS_IN_USE) :
                        m \in existing_machines_to_allocate}
                       \cup {AllocateMinionMachineTask(p, m, action_id) :
                             m \in machine_db_entries_to_add},
                   allocations |-> made.allocations]

\* the keys of osmorphing_pool_instance_mappings, in insertion order
RECURSIVE MappedPools(_, _)
MappedPools(mappings, seen) ==
    IF mappings = <<>> THEN <<>>
    ELSE IF Head(mappings).pool \in seen
    THEN MappedPools(Tail(mappings), seen)
    ELSE <<Head(mappings).pool>>
         \o MappedPools(Tail(mappings), seen \cup {Head(mappings).pool})

\* osmorphing_pool_instance_mappings[p]
MappedInstances(mappings, p) ==
    LET mapped == SelectSeq(mappings, LAMBDA e : e.pool = p)
    IN  [i \in 1 .. Len(mapped) |-> mapped[i].instance]

\* the OSMorphing pool the action maps instance i to
OSMorphingPoolOf(action, i) ==
    LET mappings == action.instance_osmorphing_minion_pool_mappings
    IN  IF \E k \in DOMAIN mappings : mappings[k].instance = i
        THEN mappings[CHOOSE k \in DOMAIN mappings :
                          mappings[k].instance = i].pool
        ELSE None

\* a _run_machine_allocation_subflow_for_action that reserves OSMorphing
\* minions in the destination pool too
ReservationBlocksWithoutReuse(action) ==
    LET osmorphing_pools ==
            MappedPools(action.instance_osmorphing_minion_pool_mappings, {})
    IN  (IF /\ action.include_transfer_minions
            /\ action.origin_minion_pool_id # None
         THEN <<[role |-> "origin", pool |-> action.origin_minion_pool_id,
                 instances |-> action.instances]>>
         ELSE <<>>)
        \o (IF /\ action.include_transfer_minions
               /\ action.destination_minion_pool_id # None
            THEN <<[role |-> "destination",
                    pool |-> action.destination_minion_pool_id,
                    instances |-> action.instances]>>
            ELSE <<>>)
        \o (IF action.include_osmorphing_minions
            THEN [i \in 1 .. Len(osmorphing_pools) |->
                    [role |-> "osmorphing",
                     pool |-> osmorphing_pools[i],
                     instances |-> MappedInstances(
                         action.instance_osmorphing_minion_pool_mappings,
                         osmorphing_pools[i])]]
            ELSE <<>>)

\* the parts of _run_machine_allocation_subflow_for_action, in order: one
\* per pool lock it takes, and one per pool whose destination minions are
\* reused for OSMorphing
ReservationBlocks(action) ==
    LET osmorphing_pools ==
            MappedPools(action.instance_osmorphing_minion_pool_mappings, {})
    IN  (IF /\ action.include_transfer_minions
            /\ action.origin_minion_pool_id # None
         THEN <<[role |-> "origin", pool |-> action.origin_minion_pool_id,
                 instances |-> action.instances]>>
         ELSE <<>>)
        \o (IF /\ action.include_transfer_minions
               /\ action.destination_minion_pool_id # None
            THEN <<[role |-> "destination",
                    pool |-> action.destination_minion_pool_id,
                    instances |-> action.instances]>>
            ELSE <<>>)
        \o (IF action.include_osmorphing_minions
            THEN [i \in 1 .. Len(osmorphing_pools) |->
                    [role |->
                        IF /\ action.destination_minion_pool_id # None
                           /\ osmorphing_pools[i] =
                                  action.destination_minion_pool_id
                        THEN "reuse" ELSE "osmorphing",
                     pool |-> osmorphing_pools[i],
                     instances |-> MappedInstances(
                         action.instance_osmorphing_minion_pool_mappings,
                         osmorphing_pools[i])]]
            ELSE <<>>)

\* instance_machine_allocations with the minions of one role registered
RegisterAllocations(allocations, role, made) ==
    [i \in DOMAIN allocations |->
        IF i \notin DOMAIN made THEN allocations[i]
        ELSE IF role = "origin"
        THEN [allocations[i] EXCEPT !.origin_minion_id = made[i]]
        ELSE IF role = "destination"
        THEN [allocations[i] EXCEPT !.destination_minion_id = made[i]]
        ELSE [allocations[i] EXCEPT !.osmorphing_minion_id = made[i]]]

\* the reuse of the destination minions as OSMorphing minions
ReuseDestinationMinions(allocations, instances) ==
    IF \E k \in DOMAIN instances :
           \/ instances[k] \notin DOMAIN allocations
           \/ allocations[instances[k]].destination_minion_id = NoId
    THEN [error |-> "KeyError", allocations |-> allocations]
    ELSE [error |-> None,
          allocations |->
              [i \in DOMAIN allocations |->
                  IF i \in Values(instances)
                  THEN [allocations[i] EXCEPT !.osmorphing_minion_id =
                            allocations[i].destination_minion_id]
                  ELSE allocations[i]]]

\* one part of _run_machine_allocation_subflow_for_action for call c
RunBlock(mchs, pls, c, action_id, block, free, t) ==
    IF block.role = "reuse"
    THEN LET reused == ReuseDestinationMinions(
                           c.allocations, block.instances)
         IN  [error |-> reused.error, machines |-> mchs, subflows |-> {},
              allocations |-> reused.allocations]
    ELSE IF pls[block.pool].status = None
    THEN [error |-> "NotFound", machines |-> mchs, subflows |-> {},
          allocations |-> c.allocations]
    ELSE LET sub == MachineAllocationSubflow(
                        mchs, pls, block.pool, action_id, block.instances,
                        free, t)
         IN  IF sub.error # None
             THEN [error |-> sub.error, machines |-> mchs, subflows |-> {},
                   allocations |-> c.allocations]
             ELSE IF DOMAIN sub.allocations \subseteq DOMAIN c.allocations
             THEN [error |-> None, machines |-> sub.machines,
                   subflows |-> sub.subflows,
                   allocations |-> RegisterAllocations(
                       c.allocations, block.role, sub.allocations)]
             ELSE [error |-> "KeyError", machines |-> sub.machines,
                   subflows |-> {}, allocations |-> c.allocations]

\* a main allocation flow that confirms before the machines are ready
MainAllocationFlowStepsConfirmingFirst(subflows, allocations) ==
    <<ReportMinionAllocationFailureTask,
      ConfirmMinionAllocationTask(allocations),
      UnorderedFlow(subflows)>>

\* the steps of the main allocation flow of an action
MainAllocationFlowSteps(subflows, allocations) ==
    <<ReportMinionAllocationFailureTask,
      UnorderedFlow(subflows),
      ConfirmMinionAllocationTask(allocations)>>

\* main_allocation_flow of _run_machine_allocation_subflow_for_action
MainAllocationFlow(action_id, action, subflows, allocations) ==
    [kind |-> ActionAllocation, pool |-> None, action |-> action_id,
     pos |-> 1, request |-> action,
     steps |-> MainAllocationFlowSteps(subflows, allocations)]

\* the call once its parts are all done: the main flow starts in the
\* background and the call returns
FinishCall(a, c) ==
    /\ CanLaunch(flows)
    /\ flows' = RunFlowInBackground(flows,
           MainAllocationFlow(a, c.action, c.subflows, c.allocations))
    /\ calls' = [calls EXCEPT ![a] = NoCall]
    /\ out' = [NoOut EXCEPT !.kind = "returned", !.action = a,
                            !.allocations = c.allocations,
                            !.request = c.action]

\* call c of action a runs its next part; an exception takes it to the
\* handler of allocate_minion_machines_for_*
StepCall(a, c) ==
    IF c.blocks = <<>>
    THEN FinishCall(a, c) /\ machines' = machines
    ELSE LET done == RunBlock(machines, pools, c, a, Head(c.blocks),
                              MachineIds \ UsedMachineIds, now)
             next == [c EXCEPT !.blocks = Tail(@),
                               !.allocations = done.allocations,
                               !.subflows = @ \cup done.subflows]
         IN  /\ done.error # "OutOfIds"
             /\ machines' = done.machines
             /\ IF done.error # None
                THEN /\ calls' = [calls EXCEPT ![a] =
                            [NoCall EXCEPT !.pc = "cleanup",
                                           !.action = c.action,
                                           !.error = done.error,
                                           !.before = c.before]]
                     /\ out' = NoOut
                     /\ flows' = flows
                ELSE IF next.blocks = <<>>
                THEN FinishCall(a, next)
                ELSE /\ calls' = [calls EXCEPT ![a] = next]
                     /\ out' = NoOut
                     /\ flows' = flows

\* allocate_minion_machines_for_replica and
\* allocate_minion_machines_for_migration are called for action a
AllocateMinionMachines(a, action) ==
    /\ calls[a] = NoCall
    /\ StepCall(a, [NoCall EXCEPT
           !.pc = "running",
           !.action = action,
           !.before = machines,
           !.blocks = ReservationBlocks(action),
           !.allocations =
               [i \in Values(action.instances) |->
                   [origin_minion_id |-> NoId,
                    destination_minion_id |-> NoId,
                    osmorphing_minion_id |-> NoId]]])
    /\ UNCHANGED <<pools, releases, now, cron, locks>>

\* the call of action a goes on past a pool lock
ContinueAllocateMinionMachines(a) ==
    /\ calls[a].pc = "running"
    /\ StepCall(a, calls[a])
    /\ UNCHANGED <<pools, releases, now, cron, locks>>

\* machines grouped by pool as pool_machine_mappings, in the order of the
\* query: per pool, the UNINITIALIZED machines and the other machines
RECURSIVE MachinesByPool(_, _)
MachinesByPool(mchs, ids) ==
    IF ids = {} THEN <<>>
    ELSE LET first == CHOOSE m \in ids : \A k \in ids : m <= k
             p == mchs[first].pool_id
             mine == {m \in ids : mchs[m].pool_id = p}
             uninitialized ==
                 {m \in mine :
                     mchs[m].status = MINION_MACHINE_STATUS_UNINITIALIZED}
         IN  <<[pool |-> p, delete |-> uninitialized,
                release |-> mine \ uninitialized]>>
             \o MachinesByPool(mchs, ids \ mine)

\* what deallocate_minion_machines_for_action does under one pool lock
ReleasePoolMachines(mchs, block) ==
    LET deleted == DeleteMachines(mchs, block.delete)
    IN  IF CanSetAllocationStatuses(deleted, block.release)
        THEN [error |-> None,
              machines |-> SetAllocationStatuses(
                  deleted, block.release, None,
                  MINION_MACHINE_STATUS_AVAILABLE, FALSE, NeverUsed)]
        ELSE [error |-> "NotFound", machines |-> deleted]

\* the handler of allocate_minion_machines_for_*:
\* _cleanup_machines_with_statuses_for_action queries the UNINITIALIZED
\* machines of the action
CleanupQuery(a) ==
    LET c == calls[a]
        targeted == {m \in ActionMachines(machines, a) :
                        machines[m].status =
                            MINION_MACHINE_STATUS_UNINITIALIZED}
        todo == MachinesByPool(machines, targeted)
    IN  /\ c.pc = "cleanup"
        /\ calls' = [calls EXCEPT ![a] =
               [c EXCEPT !.todo = todo,
                         !.pc = IF todo = <<>> THEN "deallocate"
                                ELSE "cleanup_pools"]]
        /\ out' = NoOut
        /\ UNCHANGED <<pools, machines, flows, releases, now, cron, locks>>

\* _cleanup_machines_with_statuses_for_action deletes, under one pool
\* lock, the machines it found in that pool
CleanupPool(a) ==
    LET c == calls[a]
    IN  /\ c.pc = "cleanup_pools"
        /\ machines' = DeleteMachines(machines, Head(c.todo).delete)
        /\ calls' = [calls EXCEPT ![a] =
               [c EXCEPT !.todo = Tail(@),
                         !.pc = IF Tail(c.todo) = <<>> THEN "deallocate"
                                ELSE "cleanup_pools"]]
        /\ out' = NoOut
        /\ UNCHANGED <<pools, flows, releases, now, cron, locks>>

\* the handler calls deallocate_minion_machines_for_action, which queries
\* the machines of the action
HandlerDeallocateQuery(a) ==
    LET c == calls[a]
        todo == MachinesByPool(machines, ActionMachines(machines, a))
    IN  /\ c.pc = "deallocate"
        /\ calls' = [calls EXCEPT ![a] =
               [c EXCEPT !.todo = todo,
                         !.pc = IF todo = <<>> THEN "report"
                                ELSE "deallocate_pools"]]
        /\ out' = NoOut
        /\ UNCHANGED <<pools, machines, flows, releases, now, cron, locks>>

\* the handler's deallocate_minion_machines_for_action under one pool
\* lock; an exception leaves the handler
HandlerDeallocatePool(a) ==
    LET c == calls[a]
        released == ReleasePoolMachines(machines, Head(c.todo))
    IN  /\ c.pc = "deallocate_pools"
        /\ machines' = released.machines
        /\ IF released.error # None
           THEN /\ calls' = [calls EXCEPT ![a] = NoCall]
                /\ out' = [Raise(released.error) EXCEPT !.action = a]
           ELSE /\ calls' = [calls EXCEPT ![a] =
                       [c EXCEPT !.todo = Tail(@),
                                 !.pc = IF Tail(c.todo) = <<>> THEN "report"
                                        ELSE "deallocate_pools"]]
                /\ out' = NoOut
        /\ UNCHANGED <<pools, flows, releases, now, cron, locks>>

\* the handler reports the error to the Conductor
\* (report_*_minions_allocation_error) and raises it again
ReportAllocationError(a) ==
    LET c == calls[a]
    IN  /\ c.pc = "report"
        /\ calls' = [calls EXCEPT ![a] = NoCall]
        /\ out' = [NoOut EXCEPT !.kind = "allocation_error", !.action = a,
                                !.error = c.error, !.request = c.action]
        /\ UNCHANGED <<pools, machines, flows, releases, now, cron, locks>>

\* deallocate_minion_machines_for_action is called: it queries the
\* machines of the action
DeallocateMinionMachinesForAction(a) ==
    LET todo == MachinesByPool(machines, ActionMachines(machines, a))
    IN  /\ releases.for_action[a] = NoRelease
        /\ releases' = [releases EXCEPT !.for_action[a] =
               IF todo = <<>> THEN NoRelease
               ELSE [pc |-> "pools", todo |-> todo]]
        /\ out' = NoOut
        /\ UNCHANGED <<pools, machines, flows, calls, now, cron, locks>>

\* deallocate_minion_machines_for_action under one pool lock
DeallocatePoolMachinesForAction(a) ==
    LET r == releases.for_action[a]
        released == ReleasePoolMachines(machines, Head(r.todo))
    IN  /\ r.pc = "pools"
        /\ machines' = released.machines
        /\ IF released.error # None
           THEN /\ releases' = [releases EXCEPT !.for_action[a] = NoRelease]
                /\ out' = [Raise(released.error) EXCEPT !.action = a]
           ELSE /\ releases' = [releases EXCEPT !.for_action[a] =
                       IF Tail(r.todo) = <<>> THEN NoRelease
                       ELSE [r EXCEPT !.todo = Tail(@)]]
                /\ out' = NoOut
        /\ UNCHANGED <<pools, flows, calls, now, cron, locks>>

\* deallocate_minion_machine is called: it reads the machine, and returns
\* at once when there is no such machine
DeallocateMinionMachine(m) ==
    /\ releases.machine = NoId
    /\ releases' = IF MachineExists(m)
                   THEN [releases EXCEPT !.machine = m]
                   ELSE releases
    /\ out' = NoOut
    /\ UNCHANGED <<pools, machines, flows, calls, now, cron, locks>>

\* a release that leaves the machine to the action it was allocated to
ReleasedKeepingAction(mchs, m) ==
    [mchs EXCEPT ![m] =
        [@ EXCEPT !.status = MINION_MACHINE_STATUS_AVAILABLE]]

\* the update_minion_machine of deallocate_minion_machine: the machine is
\* AVAILABLE and allocated to no action
ReleasedMachine(mchs, m) ==
    [mchs EXCEPT ![m] =
        [@ EXCEPT !.status = MINION_MACHINE_STATUS_AVAILABLE,
                  !.allocated_action = None]]

\* deallocate_minion_machine under the pool lock: it marks the machine
\* AVAILABLE whatever its status
DeallocateMinionMachineLocked ==
    /\ releases.machine # NoId
    /\ machines' = IF MachineExists(releases.machine)
                   THEN ReleasedMachine(machines, releases.machine)
                   ELSE machines
    /\ releases' = [releases EXCEPT !.machine = NoId]
    /\ out' = IF MachineExists(releases.machine) THEN NoOut
              ELSE Raise("NotFound")
    /\ UNCHANGED <<pools, flows, calls, now, cron, locks>>

(***************************************************************************)
(* Specifications.                                                         *)
(***************************************************************************)
\* the state once the service is constructed over an empty store
Init ==
    /\ pools = [p \in PoolIds |-> NoPool]
    /\ machines = [m \in MachineIds |-> NoMachine]
    /\ flows = [s \in FlowSlots |-> NoFlow]
    /\ calls = [a \in ActionIds |-> NoCall]
    /\ releases = [for_action |-> [a \in ActionIds |-> NoRelease],
                   machine |-> NoId]
    /\ out = NoOut
    /\ now = 1
    /\ cron = {}
    /\ locks = [p \in PoolIds |-> NoHolder]

\* the tasks of the pool flows run
PoolFlowNext ==
    \/ \E s \in FlowSlots : RunUpdateStatusTask(s)
    \/ \E s \in FlowSlots, ok \in BOOLEAN : RunPoolTask(s, ok)
    \/ \E s \in FlowSlots, ok \in BOOLEAN : RunMachineTask(s, ok)

\* the tasks of the main allocation flows of the actions run
ActionFlowNext ==
    \/ \E s \in FlowSlots, ok \in BOOLEAN : RunMachineTask(s, ok)
    \/ \E s \in FlowSlots : RunConfirmTask(s)

\* the pool operations are called on the pools ps
PoolNext(ps) ==
    \/ \E p \in ps, shape \in PoolShapes, skip_allocation \in BOOLEAN :
          CreateMinionPool(p, shape, skip_allocation)
    \/ \E p \in ps, launched \in BOOLEAN : AllocateMinionPool(p, launched)
    \/ \E p \in ps, force \in BOOLEAN, launched \in BOOLEAN :
          DeallocateMinionPool(p, force, launched)
    \/ \E p \in ps : RefreshMinionPool(p)

\* the life cycle of one pool
PoolLifecycleNext == PoolNext({"p1"}) \/ PoolFlowNext \/ Tick

SpecPoolLifecycle == Init /\ [][PoolLifecycleNext]_vars

\* no flow is in flight
NoFlowInFlight == \A s \in FlowSlots : flows[s] = NoFlow

\* allocate_minion_pool is called once the flows launched before are over
AllocateMinionPoolInTurn(p, launched) ==
    NoFlowInFlight /\ AllocateMinionPool(p, launched)

\* deallocate_minion_pool is called, without force, once the flows
\* launched before are over
DeallocateMinionPoolInTurn(p, launched) ==
    NoFlowInFlight /\ DeallocateMinionPool(p, FALSE, launched)

\* refresh_minion_pool is called once the flows launched before are over
RefreshMinionPoolInTurn(p) ==
    NoFlowInFlight /\ RefreshMinionPool(p)

\* a pool is created, then allocated, refreshed and deallocated in turn,
\* each operation called once the flow of the one before is over
RoundTripNext ==
    \/ \E shape \in PoolShapes : CreateMinionPool("p1", shape, TRUE)
    \/ \E launched \in BOOLEAN : AllocateMinionPoolInTurn("p1", launched)
    \/ \E launched \in BOOLEAN : DeallocateMinionPoolInTurn("p1", launched)
    \/ RefreshMinionPoolInTurn("p1")
    \/ PoolFlowNext
    \/ Tick

SpecRoundTrip == Init /\ [][RoundTripNext]_vars

\* a Replica: allocate_minion_machines_for_replica asks for transfer
\* minions only
Replica(instances, origin, destination) ==
    [type |-> TRANSFER_ACTION_TYPE_REPLICA, instances |-> instances,
     origin_minion_pool_id |-> origin,
     destination_minion_pool_id |-> destination,
     instance_osmorphing_minion_pool_mappings |-> <<>>,
     include_transfer_minions |-> TRUE,
     include_osmorphing_minions |-> FALSE]

\* a Migration, with the arguments of
\* allocate_minion_machines_for_migration
Migration(instances, origin, destination, mappings, transfer, osmorphing) ==
    [type |-> TRANSFER_ACTION_TYPE_MIGRATION, instances |-> instances,
     origin_minion_pool_id |-> origin,
     destination_minion_pool_id |-> destination,
     instance_osmorphing_minion_pool_mappings |-> mappings,
     include_transfer_minions |-> transfer,
     include_osmorphing_minions |-> osmorphing]

\* the transfer actions machines are reserved for
TransferActions ==
    {Replica(<<"vm1">>, None, "p1"),
     Replica(<<"vm1", "vm2">>, None, "p1"),
     Migration(<<"vm1">>, "p2", "p1",
               <<[instance |-> "vm1", pool |-> "p1"]>>, TRUE, TRUE),
     Migration(<<"vm1">>, None, "p1",
               <<[instance |-> "vm1", pool |-> "p2"]>>, TRUE, TRUE),
     Migration(<<"vm1", "vm2">>, None, "p1",
               <<[instance |-> "vm1", pool |-> "p2"],
                 [instance |-> "vm2", pool |-> "p2"]>>, TRUE, TRUE)}

\* the state once pool p1 (one to two minions) and pool p2 (one minion)
\* were created and their allocation flows have completed
InitAllocated ==
    /\ pools = [p \in PoolIds |->
           [status |-> MINION_POOL_STATUS_ALLOCATED,
            minimum_minions |-> 1,
            maximum_minions |-> IF p = "p1" THEN 2 ELSE 1,
            minion_max_idle_time |-> 1,
            endpoint_id |-> "e2",
            platform |-> PROVIDER_PLATFORM_DESTINATION,
            os_type |-> OS_TYPE_LINUX]]
    /\ machines = [m \in MachineIds |->
           IF m \in {1, 2}
           THEN [pool_id |-> IF m = 1 THEN "p1" ELSE "p2",
                 status |-> MINION_MACHINE_STATUS_AVAILABLE,
                 allocated_action |-> None, last_used_at |-> NeverUsed]
           ELSE NoMachine]
    /\ flows = [s \in FlowSlots |-> NoFlow]
    /\ calls = [a \in ActionIds |-> NoCall]
    /\ releases = [for_action |-> [a \in ActionIds |-> NoRelease],
                   machine |-> NoId]
    /\ out = NoOut
    /\ now = 1
    /\ cron = {}
    /\ locks = [p \in PoolIds |-> NoHolder]

\* action a has no machine and no allocation flow
HoldsNothing(a) ==
    /\ ActionMachines(machines, a) = {}
    /\ \A s \in FlowSlots : flows[s].action # a

\* the Conductor asks for the minions of an action that holds none
ReserveMachines(a, action) ==
    /\ HoldsNothing(a)
    /\ AllocateMinionMachines(a, action)

\* the calls of allocate_minion_machines_for_* in progress run, their
\* exception handler included
CallNext(as) ==
    \/ \E a \in as : ContinueAllocateMinionMachines(a)
    \/ \E a \in as : CleanupQuery(a)
    \/ \E a \in as : CleanupPool(a)
    \/ \E a \in as : HandlerDeallocateQuery(a)
    \/ \E a \in as : HandlerDeallocatePool(a)
    \/ \E a \in as : ReportAllocationError(a)

\* the machines of the actions as are released
ReleaseNext(as) ==
    \/ \E a \in as : DeallocateMinionMachinesForAction(a)
    \/ \E a \in as : DeallocatePoolMachinesForAction(a)
    \/ \E m \in MachineIds : DeallocateMinionMachine(m)
    \/ DeallocateMinionMachineLocked

\* concurrent reservations for two actions over allocated pools
ReservationsNext ==
    \/ \E a \in ActionIds, action \in TransferActions :
          ReserveMachines(a, action)
    \/ CallNext(ActionIds)
    \/ ActionFlowNext

SpecReservations == InitAllocated /\ [][ReservationsNext]_vars

\* transfer actions that upscale pool p1: they take the
\* AVAILABLE machine of p1 and a new one; the second then fails on p2
UpscalingActions ==
    {Replica(<<"vm1", "vm2">>, None, "p1"),
     Migration(<<"vm1", "vm2">>, None, "p1",
               <<[instance |-> "vm1", pool |-> "p2"],
                 [instance |-> "vm2", pool |-> "p2"]>>, TRUE, TRUE)}

\* no allocate_minion_machines_for_* call is in progress
NoCallInProgress == \A a \in ActionIds : calls[a] = NoCall

\* allocate_minion_machines_for_* is called for action a once the calls
\* made before have returned
AllocateMinionMachinesInTurn(a, action) ==
    NoCallInProgress /\ AllocateMinionMachines(a, action)

\* a task of an allocation flow runs while no call is in progress
RunMachineTaskInTurn(s, ok) == NoCallInProgress /\ RunMachineTask(s, ok)

\* the confirmation task runs while no call is in progress
RunConfirmTaskInTurn(s) == NoCallInProgress /\ RunConfirmTask(s)

\* reservations that run one at a time: nothing else writes to the store
\* while a call is in progress
SerialReservationsNext ==
    \/ \E action \in UpscalingActions :
          AllocateMinionMachinesInTurn("a1", action)
    \/ CallNext({"a1"})
    \/ \E s \in FlowSlots, ok \in BOOLEAN : RunMachineTaskInTurn(s, ok)
    \/ \E s \in FlowSlots : RunConfirmTaskInTurn(s)

SpecSerialReservations == InitAllocated /\ [][SerialReservationsNext]_vars

\* machines are reserved for one action and released
ReleasesNext ==
    \/ \E action \in UpscalingActions : ReserveMachines("a1", action)
    \/ CallNext({"a1"})
    \/ ReleaseNext({"a1"})
    \/ ActionFlowNext

SpecReleases == InitAllocated /\ [][ReleasesNext]_vars

\* the transfer actions machines are reserved for during the bring-up of
\* pool p1: the second one maps its instance to a pool that does not exist
BringUpActions ==
    {Replica(<<"vm1">>, None, "p1"),
     Migration(<<"vm1">>, None, "p1",
               <<[instance |-> "vm1", pool |-> "p2"]>>, TRUE, TRUE)}

\* a pool is brought up while machines of it are reserved for an action
BringUpNext ==
    \/ \E shape \in PoolShapes, skip_allocation \in BOOLEAN :
          CreateMinionPool("p1", shape, skip_allocation)
    \/ \E launched \in BOOLEAN : AllocateMinionPool("p1", launched)
    \/ PoolFlowNext
    \/ \E s \in FlowSlots : RunConfirmTask(s)
    \/ \E action \in BringUpActions : ReserveMachines("a1", action)
    \/ CallNext({"a1"})

SpecBringUp == Init /\ [][BringUpNext]_vars

\* migrations that map instances to their destination pool for OSMorphing:
\* both instances, one of two, with an origin pool, and without transfer
\* minions
ReuseActions ==
    {Migration(<<"vm1", "vm2">>, None, "p1",
               <<[instance |-> "vm1", pool |-> "p1"],
                 [instance |-> "vm2", pool |-> "p1"]>>, TRUE, TRUE),
     Migration(<<"vm1", "vm2">>, None, "p1",
               <<[instance |-> "vm1", pool |-> "p1"],
                 [instance |-> "vm2", pool |-> "p2"]>>, TRUE, TRUE),
     Migration(<<"vm1">>, "p2", "p1",
               <<[instance |-> "vm1", pool |-> "p1"]>>, TRUE, TRUE),
     Migration(<<"vm1">>, None, "p1",
               <<[instance |-> "vm1", pool |-> "p1"]>>, FALSE, TRUE)}

\* concurrent reservations for two migrations that reuse destination
\* minions
ReuseNext ==
    \/ \E a \in ActionIds, action \in ReuseActions :
          ReserveMachines(a, action)
    \/ CallNext(ActionIds)
    \/ ActionFlowNext

SpecReuse == InitAllocated /\ [][ReuseNext]_vars

\* a _check_pool_minion_count that does not look at the status of the pool
CheckPoolMinionCountOnly(minion_pool, instances) ==
    IF Len(instances) > minion_pool.maximum_minions
    THEN "InvalidMinionPoolSelection"
    ELSE None

\* _check_pool_minion_count of validate_minion_pool_selections_for_action
CheckPoolMinionCount(minion_pool, instances) ==
    IF minion_pool.status # MINION_POOL_STATUS_ALLOCATED
    THEN "InvalidMinionPoolState"
    ELSE IF Len(instances) > minion_pool.maximum_minions
    THEN "InvalidMinionPoolSelection"
    ELSE None

\* the checks of an origin or destination pool
CheckTransferPool(pls, p, endpoint_id, platform, instances) ==
    IF pls[p].status = None THEN "NotFound"
    ELSE IF pls[p].endpoint_id # endpoint_id
    THEN "InvalidMinionPoolSelection"
    ELSE IF pls[p].platform # platform THEN "InvalidMinionPoolSelection"
    ELSE IF pls[p].os_type # OS_TYPE_LINUX THEN "InvalidMinionPoolSelection"
    ELSE CheckPoolMinionCount(pls[p], instances)

\* the checks of an OSMorphing pool
CheckOSMorphingPool(pls, p, endpoint_id, instances_to_osmorph) ==
    IF pls[p].status = None THEN "NotFound"
    ELSE IF pls[p].endpoint_id # endpoint_id
    THEN "InvalidMinionPoolSelection"
    ELSE IF pls[p].platform # PROVIDER_PLATFORM_DESTINATION
    THEN "InvalidMinionPoolSelection"
    ELSE CheckPoolMinionCount(pls[p], instances_to_osmorph)

\* the first exception of a sequence of checks, None when none raises
RECURSIVE FirstError(_)
FirstError(errors) ==
    IF errors = <<>> THEN None
    ELSE IF Head(errors) # None THEN Head(errors)
    ELSE FirstError(Tail(errors))

\* the exception validate_minion_pool_selections_for_action raises over the
\* pools pls, None when it returns
MinionPoolSelectionsError(pls, action) ==
    LET instances == action.instances
        validated == SelectSeq(
            action.instance_osmorphing_minion_pool_mappings,
            LAMBDA e : e.instance \in Values(instances))
        osmorphing_pools == MappedPools(validated, {})
    IN  FirstError(
            <<IF action.origin_minion_pool_id # None
              THEN CheckTransferPool(pls, action.origin_minion_pool_id,
                       action.origin_endpoint_id, PROVIDER_PLATFORM_SOURCE,
                       instances)
              ELSE None,
              IF action.destination_minion_pool_id # None
              THEN CheckTransferPool(pls, action.destination_minion_pool_id,
                       action.destination_endpoint_id,
                       PROVIDER_PLATFORM_DESTINATION, instances)
              ELSE None>>
            \o [i \in 1 .. Len(osmorphing_pools) |->
                   CheckOSMorphingPool(pls, osmorphing_pools[i],
                       action.destination_endpoint_id,
                       MappedInstances(validated, osmorphing_pools[i]))])

\* a validation that takes the destination pool it accepts out of service
ValidateMinionPoolSelectionsMarkingPool(action) ==
    LET error == MinionPoolSelectionsError(pools, action)
        p == action.destination_minion_pool_id
    IN  /\ out' = IF error = None
                  THEN [NoOut EXCEPT !.kind = "validated",
                                     !.action = action.id,
                                     !.request = action]
                  ELSE [Raise(error) EXCEPT !.action = action.id,
                                            !.request = action]
        /\ pools' = IF error = None /\ p # None
                    THEN [pools EXCEPT
                             ![p].status = MINION_POOL_STATUS_POOL_MAINTENANCE]
                    ELSE pools
        /\ UNCHANGED <<machines, flows, calls, releases, now, cron, locks>>

\* validate_minion_pool_selections_for_action
ValidateMinionPoolSelectionsForAction(action) ==
    /\ out' = LET error == MinionPoolSelectionsError(pools, action)
              IN  IF error = None
                  THEN [NoOut EXCEPT !.kind = "validated",
                                     !.action = action.id,
                                     !.request = action]
                  ELSE [Raise(error) EXCEPT !.action = action.id,
                                            !.request = action]
    /\ UNCHANGED <<pools, machines, flows, calls, releases, now, cron, locks>>

\* the pools validate_minion_pool_selections_for_action can find under an
\* id: none, or one of any endpoint, platform, OS type, of status ALLOCATED
\* or DEALLOCATED, and of one or two minions at most
SelectablePools ==
    {NoPool} \cup
    [status : {MINION_POOL_STATUS_ALLOCATED, MINION_POOL_STATUS_DEALLOCATED},
     minimum_minions : {0}, maximum_minions : {1, 2},
     minion_max_idle_time : {1}, endpoint_id : EndpointIds,
     platform : {PROVIDER_PLATFORM_SOURCE, PROVIDER_PLATFORM_DESTINATION},
     os_type : {OS_TYPE_LINUX, OS_TYPE_WINDOWS}]

\* the actions whose pool selections are validated: from endpoint e1 to
\* endpoint e2, one or two instances, with or without an origin pool, a
\* destination pool and OSMorphing pools, vm3 never being an instance
SelectingActions ==
    [id : {"a1"}, origin_endpoint_id : {"e1"},
     destination_endpoint_id : {"e2"},
     origin_minion_pool_id : {None, "p1"},
     destination_minion_pool_id : {None, "p1", "p2"},
     instances : {<<"vm1">>, <<"vm1", "vm2">>},
     instance_osmorphing_minion_pool_mappings :
         {<<>>,
          <<[instance |-> "vm1", pool |-> "p2"]>>,
          <<[instance |-> "vm1", pool |-> "p2"],
            [instance |-> "vm2", pool |-> "p2"]>>,
          <<[instance |-> "vm1", pool |-> "p1"],
            [instance |-> "vm2", pool |-> "p2"]>>,
          <<[instance |-> "vm1", pool |-> "p2"],
            [instance |-> "vm3", pool |-> "p1"]>>}]

InitSelectablePools ==
    /\ pools \in [PoolIds -> SelectablePools]
    /\ machines = [m \in MachineIds |->
           IF m = 1 /\ pools["p1"].status = MINION_POOL_STATUS_ALLOCATED
           THEN [pool_id |-> "p1", status |-> MINION_MACHINE_STATUS_AVAILABLE,
                 allocated_action |-> None, last_used_at |-> NeverUsed]
           ELSE NoMachine]
    /\ flows = [s \in FlowSlots |-> NoFlow]
    /\ calls = [a \in ActionIds |-> NoCall]
    /\ releases = [for_action |-> [a \in ActionIds |-> NoRelease],
                   machine |-> NoId]
    /\ out = NoOut
    /\ now = 1
    /\ cron = {}
    /\ locks = [p \in PoolIds |-> NoHolder]

ValidationNext ==
    \E action \in SelectingActions :
        ValidateMinionPoolSelectionsForAction(action)

SpecValidation == InitSelectablePools /\ [][ValidationNext]_vars

\* pool p1 in a state refresh_minion_pool can find it in: of any shape,
\* ALLOCATED, DEALLOCATED or ERROR, each machine id without a row, or the
\* row of a machine of p1 that is AVAILABLE and was never used, AVAILABLE
\* and last used at time 1, or IN_USE for action a2
InitPoolToRefresh ==
    /\ \E shape \in PoolShapes,
          status \in {MINION_POOL_STATUS_ALLOCATED,
                      MINION_POOL_STATUS_DEALLOCATED,
                      MINION_POOL_STATUS_ERROR} :
          pools = [p \in PoolIds |->
              IF p = "p1"
              THEN [status |-> status,
                    minimum_minions |-> shape.minimum_minions,
                    maximum_minions |-> shape.maximum_minions,
                    minion_max_idle_time |-> shape.minion_max_idle_time,
                    endpoint_id |-> "e2",
                    platform |-> PROVIDER_PLATFORM_DESTINATION,
                    os_type |-> OS_TYPE_LINUX]
              ELSE NoPool]
    /\ machines \in [MachineIds ->
           {NoMachine,
            [pool_id |-> "p1", status |-> MINION_MACHINE_STATUS_AVAILABLE,
             allocated_action |-> None, last_used_at |-> NeverUsed],
            [pool_id |-> "p1", status |-> MINION_MACHINE_STATUS_AVAILABLE,
             allocated_action |-> None, last_used_at |-> 1],
            [pool_id |-> "p1", status |-> MINION_MACHINE_STATUS_IN_USE,
             allocated_action |-> "a2", last_used_at |-> 1]}]
    /\ Cardinality(PoolMachines(machines, "p1")) <= pools["p1"].maximum_minions
    /\ flows = [s \in FlowSlots |-> NoFlow]
    /\ calls = [a \in ActionIds |-> NoCall]
    /\ releases = [for_action |-> [a \in ActionIds |-> NoRelease],
                   machine |-> NoId]
    /\ out = NoOut
    /\ now = 1
    /\ cron = {}
    /\ locks = [p \in PoolIds |-> NoHolder]

\* pool p1 is refreshed, the tasks of the refresh flows run, time passes
RefreshNext ==
    \/ RefreshMinionPool("p1")
    \/ \E s \in FlowSlots, ok \in BOOLEAN : RunMachineTask(s, ok)
    \/ Tick

SpecRefresh == InitPoolToRefresh /\ [][RefreshNext]_vars

\* pool p1, ALLOCATED, each machine id without a row or the row of a
\* machine of p1 that is IN_USE or UNINITIALIZED for action a1,
\* HEALTHCHECKING or in ERROR: no machine is AVAILABLE yet
InitMachinesToRelease ==
    /\ pools = [p \in PoolIds |->
           IF p = "p1"
           THEN [status |-> MINION_POOL_STATUS_ALLOCATED,
                 minimum_minions |-> 0, maximum_minions |-> MaxMachines,
                 minion_max_idle_time |-> 1, endpoint_id |-> "e2",
                 platform |-> PROVIDER_PLATFORM_DESTINATION,
                 os_type |-> OS_TYPE_LINUX]
           ELSE NoPool]
    /\ machines \in [MachineIds ->
           {NoMachine,
            [pool_id |-> "p1", status |-> MINION_MACHINE_STATUS_IN_USE,
             allocated_action |-> "a1", last_used_at |-> 1],
            [pool_id |-> "p1", status |-> MINION_MACHINE_STATUS_UNINITIALIZED,
             allocated_action |-> "a1", last_used_at |-> NeverUsed],
            [pool_id |-> "p1", status |-> MINION_MACHINE_STATUS_HEALTHCHECKING,
             allocated_action |-> None, last_used_at |-> NeverUsed],
            [pool_id |-> "p1", status |-> MINION_MACHINE_STATUS_ERROR,
             allocated_action |-> None, last_used_at |-> 1]}]
    /\ flows = [s \in FlowSlots |-> NoFlow]
    /\ calls = [a \in ActionIds |-> NoCall]
    /\ releases = [for_action |-> [a \in ActionIds |-> NoRelease],
                   machine |-> NoId]
    /\ out = NoOut
    /\ now = 1
    /\ cron = {}
    /\ locks = [p \in PoolIds |-> NoHolder]

\* deallocate_minion_machine is called again and again, each call after
\* the one before has returned
MachineReleasesNext ==
    \/ \E m \in MachineIds : DeallocateMinionMachine(m)
    \/ DeallocateMinionMachineLocked

SpecMachineReleases == InitMachinesToRelease /\ [][MachineReleasesNext]_vars

\* pool p1, ALLOCATED, in any state a per-pool reservation can find it in:
\* each machine id is unused, an AVAILABLE machine of p1, or a machine of
\* p1 IN_USE for action a2, within a maximum of two or three minions
InitPoolOfAnyShape ==
    /\ \E maximum \in {2, 3} :
          pools = [p \in PoolIds |->
              IF p = "p1"
              THEN [status |-> MINION_POOL_STATUS_ALLOCATED,
                    minimum_minions |-> 0, maximum_minions |-> maximum,
                    minion_max_idle_time |-> 1, endpoint_id |-> "e2",
                    platform |-> PROVIDER_PLATFORM_DESTINATION,
                    os_type |-> OS_TYPE_LINUX]
              ELSE NoPool]
    /\ machines \in [MachineIds ->
           {NoMachine,
            [pool_id |-> "p1", status |-> MINION_MACHINE_STATUS_AVAILABLE,
             allocated_action |-> None, last_used_at |-> NeverUsed],
            [pool_id |-> "p1", status |-> MINION_MACHINE_STATUS_IN_USE,
             allocated_action |-> "a2", last_used_at |-> 1]}]
    /\ Cardinality(PoolMachines(machines, "p1")) <= pools["p1"].maximum_minions
    /\ flows = [s \in FlowSlots |-> NoFlow]
    /\ calls = [a \in ActionIds |-> NoCall]
    /\ releases = [for_action |-> [a \in ActionIds |-> NoRelease],
                   machine |-> NoId]
    /\ out = NoOut
    /\ now = 1
    /\ cron = {}
    /\ locks = [p \in PoolIds |-> NoHolder]

\* replicas of one and of two instances with destination pool p1
PerPoolActions ==
    {Replica(<<"vm1">>, None, "p1"), Replica(<<"vm1", "vm2">>, None, "p1")}

\* one per-pool reservation for action a1 against p1, and its flow
PerPoolReservationNext ==
    \/ \E action \in PerPoolActions : ReserveMachines("a1", action)
    \/ CleanupQuery("a1")
    \/ HandlerDeallocateQuery("a1")
    \/ ReportAllocationError("a1")
    \/ ActionFlowNext

SpecPerPoolReservation == InitPoolOfAnyShape /\ [][PerPoolReservationNext]_vars

(***************************************************************************)
(* The claims.                                                             *)
(***************************************************************************)
\* C1: in every reachable state each pool owns at most maximum_minions
\* machine rows
C1_PoolWithinMaximum ==
    \A p \in PoolIds :
        PoolExists(p) =>
            Cardinality(PoolMachines(machines, p)) <= pools[p].maximum_minions

ReservedFor(a) ==
    AllocationIds(calls[a].allocations)
    \cup {sf.m : sf \in calls[a].subflows}
    \cup UNION {FlowMachineIds(flows[s]) :
                   s \in {t \in FlowSlots : flows[t].action = a}}
    \cup ActionMachines(machines, a)

\* no two instances have the same minion in the same role
DistinctPerRole(allocations) ==
    \A i, j \in DOMAIN allocations :
        i # j =>
            /\ allocations[i].origin_minion_id # NoId =>
                   allocations[i].origin_minion_id
                       # allocations[j].origin_minion_id
            /\ allocations[i].destination_minion_id # NoId =>
                   allocations[i].destination_minion_id
                       # allocations[j].destination_minion_id
            /\ allocations[i].osmorphing_minion_id # NoId =>
                   allocations[i].osmorphing_minion_id
                       # allocations[j].osmorphing_minion_id

\* C3: while reservations for different actions interleave, no machine id
\* is reserved for two actions at once, and within one per-pool
\* reservation the instances are mapped to distinct machine ids
C3_NoMachineReservedTwice ==
    /\ \A a, b \in ActionIds :
           a # b => ReservedFor(a) \cap ReservedFor(b) = {}
    /\ \A a \in ActionIds : DistinctPerRole(calls[a].allocations)
    /\ \A s \in FlowSlots :
           \A k \in DOMAIN flows[s].steps :
               DistinctPerRole(flows[s].steps[k].allocations)

\* C3, witness: the allocation flows of both actions are in flight and
\* both actions have reserved a machine of pool p1
C3_TwoActionsShareAPool ==
    /\ \A a \in ActionIds :
           ReservedFor(a) \cap PoolMachines(machines, "p1") # {}
    /\ \A s \in FlowSlots : flows[s].kind = ActionAllocation

\* C4: in every reachable state a pool whose status is DEALLOCATED owns no
\* machine rows
C4_DeallocatedPoolOwnsNoMachines ==
    \A p \in PoolIds :
        pools[p].status = MINION_POOL_STATUS_DEALLOCATED =>
            PoolMachines(machines, p) = {}

\* the transitions of the pool state machine: the chain of statuses, with
\* POOL_MAINTENANCE taken from any status while a flow is launched and left
\* for the first status of the flow, ALLOCATING_MACHINES and
\* DEALLOCATING_MACHINES passed over by a pool with no machine, and ERROR
\* reachable from any status
PoolStatusTransitions ==
    {<<MINION_POOL_STATUS_DEALLOCATED, MINION_POOL_STATUS_VALIDATING_INPUTS>>,
     <<MINION_POOL_STATUS_VALIDATING_INPUTS,
       MINION_POOL_STATUS_ALLOCATING_SHARED_RESOURCES>>,
     <<MINION_POOL_STATUS_ALLOCATING_SHARED_RESOURCES,
       MINION_POOL_STATUS_ALLOCATING_MACHINES>>,
     <<MINION_POOL_STATUS_ALLOCATING_SHARED_RESOURCES,
       MINION_POOL_STATUS_ALLOCATED>>,
     <<MINION_POOL_STATUS_ALLOCATING_MACHINES, MINION_POOL_STATUS_ALLOCATED>>,
     <<MINION_POOL_STATUS_POOL_MAINTENANCE,
       MINION_POOL_STATUS_VALIDATING_INPUTS>>,
     <<MINION_POOL_STATUS_POOL_MAINTENANCE,
       MINION_POOL_STATUS_DEALLOCATING_MACHINES>>,
     <<MINION_POOL_STATUS_POOL_MAINTENANCE,
       MINION_POOL_STATUS_DEALLOCATING_SHARED_RESOURCES>>,
     <<MINION_POOL_STATUS_DEALLOCATING_MACHINES,
       MINION_POOL_STATUS_DEALLOCATING_SHARED_RESOURCES>>,
     <<MINION_POOL_STATUS_DEALLOCATING_SHARED_RESOURCES,
       MINION_POOL_STATUS_DEALLOCATED>>}
    \cup {<<from, to>> : from \in {pools[p].status : p \in PoolIds},
                         to \in {MINION_POOL_STATUS_POOL_MAINTENANCE,
                                 MINION_POOL_STATUS_ERROR}}

\* C5: whatever allocate_pool, deallocate_pool (forced or not) and
\* refresh_minion_pool calls and flows run concurrently on a pool, each
\* change of the pool's status is a transition of the pool state machine
C5_StatusFollowsStateMachine ==
    [][\A p \in PoolIds :
          (PoolExists(p) /\ pools'[p].status # pools[p].status) =>
              <<pools[p].status, pools'[p].status>>
                  \in PoolStatusTransitions]_vars

\* C6: when allocate_pool, its flow, deallocate_pool and its flow run one
\* after the other, the deallocation flow ends with the pool DEALLOCATED
\* and owning no machine row
C6_RoundTripLeavesNoMachine ==
    [][\A s \in FlowSlots :
          (/\ flows[s].kind = "pool_deallocation"
           /\ flows[s].pos = Len(flows[s].steps)
           /\ flows'[s] = NoFlow) =>
              /\ pools'[flows[s].pool].status = MINION_POOL_STATUS_DEALLOCATED
              /\ PoolMachines(machines', flows[s].pool) = {}]_vars

\* C6, witness: the deallocation flow of a pool that was allocated with a
\* machine has deallocated it and is at its last task
C6_DeallocationAboutToEnd ==
    \E s \in FlowSlots :
        /\ flows[s].kind = "pool_deallocation"
        /\ flows[s].steps[1].status = MINION_POOL_STATUS_DEALLOCATING_MACHINES
        /\ flows[s].pos = Len(flows[s].steps)
        /\ PoolMachines(machines, flows[s].pool) = {}

\* C7: when a reservation asks a pool for more instances than it has
\* AVAILABLE machines and free slots, InvalidMinionPoolState is raised and
\* the call leaves the store as it was before the call
C7_RejectionLeavesStoreUnchanged ==
    [][\A a \in ActionIds :
          (/\ calls[a].error = "InvalidMinionPoolState"
           /\ calls[a].pc # "idle"
           /\ calls'[a] = NoCall) =>
              /\ out'.kind = "allocation_error"
              /\ out'.error = "InvalidMinionPoolState"
              /\ machines' = calls[a].before]_vars

\* C8: when the synchronous part of a reservation has raised, the call
\* ends in one way only: once no machine row is allocated to the action
\* any more (the rows it inserted are deleted, the machines it reserved
\* are released), the error is reported to the Conductor, once, and the
\* same error is raised to the caller
C8_CleanupThenReportThenRaise ==
    [][\A a \in ActionIds :
          /\ (calls[a].error # None /\ calls'[a] = NoCall) =>
                 /\ calls[a].pc = "report"
                 /\ ActionMachines(machines, a) = {}
                 /\ machines' = machines
                 /\ out'.kind = "allocation_error"
                 /\ out'.action = a
                 /\ out'.error = calls[a].error
          /\ (out'.kind = "allocation_error" /\ out'.action = a) =>
                 (calls[a].pc = "report" /\ calls'[a] = NoCall)
          /\ (calls[a].error # None /\ calls'[a] # NoCall) =>
                 calls'[a].error = calls[a].error]_vars

\* C8, witness: the handler is about to report an error after it released
\* a machine the call had reserved
C8_AboutToReport ==
    \E a \in ActionIds :
        /\ calls[a].pc = "report"
        /\ \E m \in MachineIds :
              /\ calls[a].before[m].status = MINION_MACHINE_STATUS_AVAILABLE
              /\ machines[m].status = MINION_MACHINE_STATUS_AVAILABLE
              /\ machines[m].last_used_at # calls[a].before[m].last_used_at

\* C9: an allocation flow ends with exactly one report, a confirmation or
\* a failure, and reports nothing before it ends; it confirms only at its
\* confirmation task, the last one, once every task of every subflow of
\* the machines has succeeded, and it reports a failure when a task of a
\* subflow has failed, the confirmation task then never running
C9_ConfirmOnlyAfterSubflows ==
    [][\A s \in FlowSlots :
          (flows[s].kind = ActionAllocation /\ flows'[s] # flows[s]) =>
              LET f == flows[s]
              IN  IF flows'[s] = NoFlow
                  THEN /\ out'.action = f.action
                       /\ out'.kind \in {"allocation_confirmed",
                                         "allocation_failure"}
                       /\ out'.kind = "allocation_confirmed" =>
                              /\ f.steps[f.pos].t = "confirm"
                              /\ f.pos = Len(f.steps)
                              /\ out'.allocations = f.steps[f.pos].allocations
                              /\ \A k \in 1 .. f.pos - 1 :
                                     /\ f.steps[k].t # "confirm"
                                     /\ f.steps[k].subflows = {}
                       /\ out'.kind = "allocation_failure" =>
                              /\ f.steps[f.pos].t = "unordered"
                              /\ \E k \in f.pos + 1 .. Len(f.steps) :
                                     f.steps[k].t = "confirm"
                  ELSE out'.kind \notin {"allocation_confirmed",
                                         "allocation_failure"}]_vars

\* C9, witness: a flow has confirmed two machines, one of them deployed by
\* the flow
C9_ConfirmedTwoMachines ==
    /\ out.kind = "allocation_confirmed"
    /\ Cardinality(AllocationIds(out.allocations)) = 2
    /\ \E m \in AllocationIds(out.allocations) :
          machines[m].last_used_at = NeverUsed

\* the (instance, role, machine id, pool) of every minion of an allocations
\* dict of the action
ReportedMinions(action, allocations) ==
    {e \in UNION {{[instance |-> i, role |-> "origin",
                    id |-> allocations[i].origin_minion_id,
                    pool |-> action.origin_minion_pool_id],
                   [instance |-> i, role |-> "destination",
                    id |-> allocations[i].destination_minion_id,
                    pool |-> action.destination_minion_pool_id],
                   [instance |-> i, role |-> "osmorphing",
                    id |-> allocations[i].osmorphing_minion_id,
                    pool |-> OSMorphingPoolOf(action, i)]} :
                  i \in DOMAIN allocations} : e.id # NoId}

\* C10: the machine ids an action is confirmed are pairwise distinct
\* across instances and roles, except that the OSMorphing minion of an
\* instance may be its destination minion, and each one is a machine of
\* the pool the action selected for that role
C10_ConfirmedMinionsDistinctAndInPool ==
    out.kind = "allocation_confirmed" =>
        LET reported == ReportedMinions(out.request, out.allocations)
        IN  /\ \A e, f \in reported :
                   (e # f /\ e.id = f.id) =>
                       /\ e.instance = f.instance
                       /\ {e.role, f.role} = {"destination", "osmorphing"}
                       /\ e.pool = f.pool
            /\ \A e \in reported : machines[e.id].pool_id = e.pool

\* the machines of pool p the store allocates to action a
ActionPoolMachines(mchs, a, p) == ActionMachines(mchs, a) \cap PoolMachines(mchs, p)

\* C11: when a reservation that reserved destination minions returns, every
\* instance whose OSMorphing pool is the destination pool has its
\* destination minion as its OSMorphing minion, and the destination pool
\* holds one machine of the action per instance (per instance and transfer
\* role when it is the origin pool too): no machine is reserved there for
\* the OSMorphing role
C11_OSMorphingReusesDestinationMinion ==
    [][out'.kind = "returned" =>
          LET r == out'.request
              d == r.destination_minion_pool_id
          IN  (/\ r.include_transfer_minions
               /\ r.include_osmorphing_minions
               /\ d # None
               /\ \E i \in Values(r.instances) : OSMorphingPoolOf(r, i) = d)
              =>
              /\ \A i \in Values(r.instances) :
                     OSMorphingPoolOf(r, i) = d =>
                         /\ out'.allocations[i].destination_minion_id # NoId
                         /\ out'.allocations[i].osmorphing_minion_id =
                                out'.allocations[i].destination_minion_id
              /\ Cardinality(ActionPoolMachines(machines', out'.action, d)) =
                     Len(r.instances) *
                         (IF r.origin_minion_pool_id = d THEN 2 ELSE 1)]_vars

\* C11, witness: a migration of two instances, both mapped to the
\* destination pool for OSMorphing, has returned with two machines
C11_ReturnedWithReuse ==
    /\ out.kind = "returned"
    /\ \A i \in {"vm1", "vm2"} :
          /\ i \in DOMAIN out.allocations
          /\ OSMorphingPoolOf(out.request, i) = "p1"
          /\ out.allocations[i].osmorphing_minion_id # NoId
    /\ Cardinality(ActionPoolMachines(machines, out.action, "p1")) = 2

\* the subflows of the machines an allocation flow is running
CurrentSubflows(f) ==
    IF f.kind = ActionAllocation /\ f.pos \in DOMAIN f.steps
    THEN f.steps[f.pos].subflows
    ELSE {}

\* the healthcheck of subflow sf has failed: its reallocation subflow runs
Reallocating(sf) == sf.realloc # <<>> /\ Head(sf.tasks) # "healthcheck"

\* flow s completes, in this step, the reallocation of the machine of sf
ReallocationCompletes(s, sf) ==
    /\ sf \in CurrentSubflows(flows[s])
    /\ Reallocating(sf)
    /\ sf.tasks = <<"allocate">>
    /\ flows'[s] # NoFlow
    /\ sf \notin CurrentSubflows(flows'[s])

\* the allocations the flow reports when it confirms
FlowAllocations(f) == f.steps[Len(f.steps)].allocations

\* C12, as stated: once the reallocation that follows a failed healthcheck
\* of a reserved machine is complete, the original machine id no longer
\* exists and another machine id is IN_USE for the action and is reported
\* by the flow
C12_ReallocationGivesNewId ==
    [][\A s \in FlowSlots : \A sf \in CurrentSubflows(flows[s]) :
          ReallocationCompletes(s, sf) =>
              /\ machines'[sf.m].status = None
              /\ \E m \in AllocationIds(FlowAllocations(flows'[s])) :
                     /\ m # sf.m
                     /\ machines'[m].status = MINION_MACHINE_STATUS_IN_USE
                     /\ machines'[m].last_used_at = NeverUsed]_vars

\* C12, amended: after a failed healthcheck of a reserved machine the flow
\* goes on (the failure ends nothing) with DeallocateMachine then
\* AllocateMachine of the same machine id: the row is deleted, then
\* created again under the original id, IN_USE for the action in the same
\* pool, and that id is still the one the flow reports when it confirms
C12_ReallocationKeepsId ==
    [][\A s \in FlowSlots : \A sf \in CurrentSubflows(flows[s]) :
          /\ Reallocating(sf) =>
                 sf.tasks \in {<<"deallocate", "allocate">>, <<"allocate">>}
          /\ (/\ Head(sf.tasks) = "healthcheck"
              /\ flows'[s] # NoFlow
              /\ sf \notin CurrentSubflows(flows'[s])) =>
                 /\ out'.kind # "allocation_failure"
                 /\ \/ \A sg \in CurrentSubflows(flows'[s]) : sg.m # sf.m
                    \/ [sf EXCEPT !.tasks = <<"deallocate", "allocate">>]
                           \in CurrentSubflows(flows'[s])
          /\ (/\ Reallocating(sf)
              /\ Head(sf.tasks) = "deallocate"
              /\ flows'[s] # NoFlow
              /\ sf \notin CurrentSubflows(flows'[s])) =>
                 /\ machines'[sf.m].status = None
                 /\ [sf EXCEPT !.tasks = <<"allocate">>]
                        \in CurrentSubflows(flows'[s])
          /\ ReallocationCompletes(s, sf) =>
                 /\ machines'[sf.m].status = MINION_MACHINE_STATUS_IN_USE
                 /\ machines'[sf.m].allocated_action = flows[s].action
                 /\ machines'[sf.m].pool_id = sf.pool
                 /\ sf.m \in AllocationIds(FlowAllocations(flows'[s]))
                 /\ FlowAllocations(flows'[s]) = FlowAllocations(flows[s])]_vars

\* C12, witness: a flow has confirmed machine 1, which existed before the
\* reservation and was deployed again by the flow
C12_ConfirmedAfterReallocation ==
    /\ out.kind = "allocation_confirmed"
    /\ 1 \in AllocationIds(out.allocations)
    /\ machines[1].status = MINION_MACHINE_STATUS_IN_USE
    /\ machines[1].allocated_action = out.action
    /\ machines[1].last_used_at = NeverUsed

\* the AVAILABLE machines of pool p
AvailableMachines(mchs, p) ==
    {m \in PoolMachines(mchs, p) :
        mchs[m].status = MINION_MACHINE_STATUS_AVAILABLE}

\* C13: a reservation of n instances against one pool with a AVAILABLE
\* machines inserts exactly max(0, n - a) rows, each UNINITIALIZED under an
\* id nothing used and with an AllocateMachine task in the flow; the k-th
\* instance gets the k-th AVAILABLE machine in pool order while there is
\* one, a new machine otherwise; and when the flow confirms, n machines of
\* the pool are IN_USE for the action
C13_ReservesAvailableThenCreates ==
    [][/\ out'.kind = "returned" =>
             LET a == out'.action
                 p == out'.request.destination_minion_pool_id
                 instances == out'.request.instances
                 n == Len(instances)
                 available == AvailableMachines(machines, p)
                 new == {m \in MachineIds :
                            ~MachineExists(m) /\ machines'[m].status # None}
                 id(k) == out'.allocations[instances[k]].destination_minion_id
                 launched == UNION {CurrentSubflows(flows'[s]) :
                                      s \in {t \in FlowSlots :
                                                flows'[t] # flows[t]}}
             IN  /\ Cardinality(new) =
                        IF n > Cardinality(available)
                        THEN n - Cardinality(available) ELSE 0
                 /\ \A m \in new :
                        /\ machines'[m] = [pool_id |-> p,
                               status |-> MINION_MACHINE_STATUS_UNINITIALIZED,
                               allocated_action |-> a,
                               last_used_at |-> NeverUsed]
                        /\ AllocateMinionMachineTask(p, m, a) \in launched
                 /\ \A k \in 1 .. n :
                        IF k <= Cardinality(available)
                        THEN /\ id(k) \in available
                             /\ Cardinality({m \in available : m < id(k)}) =
                                    k - 1
                             /\ machines'[id(k)].status =
                                    MINION_MACHINE_STATUS_IN_USE
                             /\ machines'[id(k)].allocated_action = a
                        ELSE id(k) \in new
                 /\ \A k, l \in 1 .. n : k # l => id(k) # id(l)
                 /\ \A m \in MachineIds \ (new \cup {id(k) : k \in 1 .. n}) :
                        machines'[m] = machines[m]
       /\ out'.kind = "allocation_confirmed" =>
             LET p == out'.request.destination_minion_pool_id
             IN  Cardinality(
                     {m \in ActionPoolMachines(machines', out'.action, p) :
                         machines'[m].status = MINION_MACHINE_STATUS_IN_USE})
                 = Len(out'.request.instances)]_vars

\* C13, witness: two instances were reserved against a pool whose second
\* machine was its only AVAILABLE one: the first instance has that
\* machine and the second one a new row
C13_OneAvailableOneNew ==
    /\ out.kind = "returned"
    /\ Len(out.request.instances) = 2
    /\ out.allocations["vm1"].destination_minion_id = 2
    /\ machines[1].allocated_action = "a2"
    /\ machines[3].status = MINION_MACHINE_STATUS_UNINITIALIZED
    /\ out.allocations["vm2"].destination_minion_id = 3

\* pool p can serve n instances of the action in a role: it exists, is of
\* the endpoint and the platform of the role, is a Linux pool where the
\* role requires one, is ALLOCATED and has n minions at most or more
PoolFitsRole(pls, p, endpoint_id, platform, n, linux_only) ==
    /\ pls[p].status # None
    /\ pls[p].endpoint_id = endpoint_id
    /\ pls[p].platform = platform
    /\ linux_only => pls[p].os_type = OS_TYPE_LINUX
    /\ pls[p].status = MINION_POOL_STATUS_ALLOCATED
    /\ n <= pls[p].maximum_minions

\* every pool the action selects fits its role; the OSMorphing pools are
\* those mapped from instances of the action
SelectionsFit(pls, action, linux_osmorphing) ==
    LET mappings == action.instance_osmorphing_minion_pool_mappings
        mapped == {k \in DOMAIN mappings :
                      mappings[k].instance \in Values(action.instances)}
    IN  /\ action.origin_minion_pool_id # None =>
               PoolFitsRole(pls, action.origin_minion_pool_id,
                   action.origin_endpoint_id, PROVIDER_PLATFORM_SOURCE,
                   Len(action.instances), TRUE)
        /\ action.destination_minion_pool_id # None =>
               PoolFitsRole(pls, action.destination_minion_pool_id,
                   action.destination_endpoint_id,
                   PROVIDER_PLATFORM_DESTINATION, Len(action.instances), TRUE)
        /\ \A k \in mapped :
               PoolFitsRole(pls, mappings[k].pool,
                   action.destination_endpoint_id,
                   PROVIDER_PLATFORM_DESTINATION,
                   Cardinality({l \in mapped :
                                   mappings[l].pool = mappings[k].pool}),
                   linux_osmorphing)

\* C14, as stated: validate_minion_pool_selections_for_action accepts an
\* action exactly when its origin pool, its destination pool and every
\* OSMorphing pool mapped from one of its instances exist, are of the
\* endpoint and platform of their role, are Linux pools, are ALLOCATED and
\* have room for the instances of the role
C14_AcceptsIffAllPoolsFitAndLinux ==
    out.kind \in {"validated", "error"} =>
        (out.kind = "validated" <=> SelectionsFit(pools, out.request, TRUE))

\* C14, amended: the same, except that only the origin and the
\* destination pool have to be Linux pools: the OS type of an OSMorphing
\* pool is not checked
C14_AcceptsIffAllPoolsFit ==
    out.kind \in {"validated", "error"} =>
        (out.kind = "validated" <=> SelectionsFit(pools, out.request, FALSE))

\* C14, witness: an action with a Windows OSMorphing pool and a mapping of
\* vm3, which is not one of its instances, to a pool that does not exist is
\* accepted
C14_AcceptedWithWindowsOSMorphingPool ==
    /\ out.kind = "validated"
    /\ out.request.instance_osmorphing_minion_pool_mappings =
           <<[instance |-> "vm1", pool |-> "p2"],
             [instance |-> "vm3", pool |-> "p1"]>>
    /\ pools["p1"].status = None
    /\ pools["p2"].os_type = OS_TYPE_WINDOWS

\* C15: validate_minion_pool_selections_for_action has no side effect:
\* whether it accepts or rejects, the step leaves every pool and machine
\* row, every flow and every call as it found them
C15_ValidationChangesNothing ==
    [][(out'.kind \in {"validated", "error"}
            /\ out'.request \in SelectingActions)
        => UNCHANGED <<pools, machines, flows, calls, releases>>]_vars

\* C15, witness: a rejected validation of an action whose destination pool
\* exists and has a machine
C15_RejectedOverExistingPool ==
    /\ out.kind = "error"
    /\ out.error = "InvalidMinionPoolSelection"
    /\ out.request.destination_minion_pool_id = "p1"
    /\ PoolMachines(machines, "p1") # {}

\* C16: allocate_minion_pool is accepted only when the pool is DEALLOCATED,
\* and then the pool is in POOL_MAINTENANCE when the allocation flow is
\* launched, none of its tasks having run; in any other status the call
\* raises InvalidMinionPoolState, launches no flow and leaves the pools and
\* the machines unchanged
C16_AllocateOnlyWhenDeallocated ==
    [][\A launched \in BOOLEAN :
          AllocateMinionPool("p1", launched) =>
              IF pools["p1"].status = MINION_POOL_STATUS_DEALLOCATED
              THEN launched =>
                     /\ out'.kind # "error"
                     /\ pools'["p1"].status =
                            MINION_POOL_STATUS_POOL_MAINTENANCE
                     /\ \E s \in FlowSlots :
                            /\ flows[s] = NoFlow
                            /\ flows'[s].kind = "pool_allocation"
                            /\ flows'[s].pool = "p1"
                            /\ flows'[s].pos = 1
                            /\ \A t \in FlowSlots \ {s} :
                                   flows'[t] = flows[t]
              ELSE /\ out' = Raise("InvalidMinionPoolState")
                   /\ UNCHANGED <<pools, machines, flows>>]_vars

\* C16, witness: the allocation flow of p1 has just been launched and p1
\* is in POOL_MAINTENANCE
C16_AllocationFlowLaunched ==
    /\ pools["p1"].status = MINION_POOL_STATUS_POOL_MAINTENANCE
    /\ \E s \in FlowSlots :
           /\ flows[s].kind = "pool_allocation"
           /\ flows[s].pos = 1
    /\ out = NoOut

\* C17: when run_flow_in_background raises inside allocate_minion_pool or
\* deallocate_minion_pool, the call raises that error, the pool has the
\* status it had before the call and no flow was added: the pool is not
\* left in POOL_MAINTENANCE by the call
C17_FailedLaunchRestoresStatus ==
    [][((\/ AllocateMinionPool("p1", FALSE)
         \/ \E force \in BOOLEAN : DeallocateMinionPool("p1", force, FALSE))
        /\ out'.kind = "error"
        /\ out'.error # "InvalidMinionPoolState")
       => /\ out' = Raise("FlowLaunchError")
          /\ pools' = pools
          /\ flows' = flows
          /\ machines' = machines
          /\ pools'["p1"].status = MINION_POOL_STATUS_POOL_MAINTENANCE
                 => \E s \in FlowSlots : flows'[s].pool = "p1"]_vars

\* C17, witness: run_flow_in_background raised inside
\* deallocate_minion_pool and the pool is ALLOCATED as it was before
C17_FailedDeallocationLaunch ==
    /\ out = Raise("FlowLaunchError")
    /\ pools["p1"].status = MINION_POOL_STATUS_ALLOCATED

\* the step launched the deallocation flow of pool p, the pool being in
\* POOL_MAINTENANCE and no task of the flow having run
DeallocationLaunched(p) ==
    /\ out'.kind # "error"
    /\ pools'[p].status = MINION_POOL_STATUS_POOL_MAINTENANCE
    /\ \E s \in FlowSlots :
          /\ flows[s] = NoFlow
          /\ flows'[s].kind = "pool_deallocation"
          /\ flows'[s].pool = p
          /\ flows'[s].pos = 1
          /\ \A t \in FlowSlots \ {s} : flows'[t] = flows[t]

\* the step raised InvalidMinionPoolState and changed nothing
RejectedAsInvalidPoolState ==
    /\ out' = Raise("InvalidMinionPoolState")
    /\ UNCHANGED <<pools, machines, flows>>

\* what a deallocate_minion_pool step of pool p does, the launch of the flow
\* not failing; deallocated_returns tells whether a DEALLOCATED pool makes
\* the call return at once or is handled as any other status
DeallocationOutcome(p, force, deallocated_returns) ==
    IF deallocated_returns
       /\ pools[p].status = MINION_POOL_STATUS_DEALLOCATED
    THEN /\ out' = NoOut
         /\ UNCHANGED <<pools, machines, flows>>
    ELSE IF \/ force
            \/ /\ pools[p].status \in {MINION_POOL_STATUS_ALLOCATED,
                                       MINION_POOL_STATUS_ERROR}
               /\ PoolMachinesInUse(machines, p) = {}
    THEN DeallocationLaunched(p)
    ELSE RejectedAsInvalidPoolState

\* C18, as stated: deallocate_minion_pool without force is accepted only
\* when the pool is ALLOCATED or ERROR and none of its machines is in use;
\* in every other case, DEALLOCATED included, it raises
\* InvalidMinionPoolState and launches no flow; with force it is accepted in
\* any status, whatever the machines in use
C18_DeallocateRejectsDeallocated ==
    [][\A force \in BOOLEAN :
          DeallocateMinionPool("p1", force, TRUE) =>
              DeallocationOutcome("p1", force, FALSE)]_vars

\* C18, amended: the same for every status but DEALLOCATED; on a
\* DEALLOCATED pool the call, forced or not, returns normally, launches no
\* flow and changes nothing
C18_DeallocateReturnsOnDeallocated ==
    [][\A force \in BOOLEAN :
          DeallocateMinionPool("p1", force, TRUE) =>
              DeallocationOutcome("p1", force, TRUE)]_vars

\* C18, witness: a forced deallocation was accepted while the allocation
\* flow of the pool was in flight
C18_ForcedDuringAllocation ==
    /\ pools["p1"].status = MINION_POOL_STATUS_POOL_MAINTENANCE
    /\ \E s, t \in FlowSlots :
          /\ flows[s].kind = "pool_deallocation"
          /\ flows[s].pos = 1
          /\ flows[t].kind = "pool_allocation"
          /\ flows[t].pos > 1
    /\ out = NoOut

\* C19, as stated: refresh_minion_pool of a pool that is not ALLOCATED
\* raises InvalidMinionPoolState and changes nothing; of an ALLOCATED pool
\* none of whose machines is AVAILABLE, it returns normally, launches no
\* flow and changes no pool and no machine
C19_EmptyRefreshReturns ==
    [][RefreshMinionPool("p1") =>
          IF pools["p1"].status # MINION_POOL_STATUS_ALLOCATED
          THEN RejectedAsInvalidPoolState
          ELSE AvailableMachines(machines, "p1") = {} =>
                  /\ out'.kind # "error"
                  /\ UNCHANGED <<pools, machines, flows>>]_vars

\* C19, witness: the refresh of an ALLOCATED pool none of whose machines is
\* AVAILABLE has raised the TypeError of the formatting of its message
C19_EmptyRefreshRaised ==
    /\ out = Raise("TypeError")
    /\ pools["p1"].status = MINION_POOL_STATUS_ALLOCATED
    /\ AvailableMachines(machines, "p1") = {}

\* pool p is ALLOCATED and idle: each of its machines is AVAILABLE, is
\* allocated to no action and was last used less than minion_max_idle_time
\* ago
IdlePool(p) ==
    /\ pools[p].status = MINION_POOL_STATUS_ALLOCATED
    /\ \A m \in PoolMachines(machines, p) :
          /\ machines[m].status = MINION_MACHINE_STATUS_AVAILABLE
          /\ machines[m].allocated_action = None
          /\ machines[m].last_used_at # NeverUsed
          /\ machines[m].last_used_at + pools[p].minion_max_idle_time > now

\* C20, as stated: refresh_minion_pool on an ALLOCATED pool whose machines
\* are all idle and none of which has exceeded minion_max_idle_time changes
\* no pool and no machine row: no status, no allocated_action, no row added
\* or deleted
C20_IdleRefreshChangesNothing ==
    [][(RefreshMinionPool("p1") /\ IdlePool("p1"))
       => UNCHANGED <<pools, machines>>]_vars

\* C20, amended: such a refresh changes no pool, adds and deletes no
\* machine row and changes no allocated_action, pool or last_used_at of a
\* machine, but sets every machine of the pool to HEALTHCHECKING and, when
\* the pool has a machine, launches the refresh flow that healthchecks them
C20_IdleRefreshHealthchecks ==
    [][(RefreshMinionPool("p1") /\ IdlePool("p1"))
       => /\ pools' = pools
          /\ machines' =
                [m \in MachineIds |->
                    IF m \in PoolMachines(machines, "p1")
                    THEN [machines[m] EXCEPT
                             !.status = MINION_MACHINE_STATUS_HEALTHCHECKING]
                    ELSE machines[m]]
          /\ IF PoolMachines(machines, "p1") = {}
             THEN flows' = flows
             ELSE /\ out'.kind # "error"
                  /\ \E s \in FlowSlots :
                        /\ flows[s] = NoFlow
                        /\ flows'[s] = MinionPoolRefreshFlow("p1",
                               [deallocate |-> {},
                                healthcheck |->
                                    PoolMachines(machines, "p1")])
                        /\ \A t \in FlowSlots \ {s} :
                               flows'[t] = flows[t]]_vars

\* C20, witness: the refresh of an idle pool of two machines has just set
\* both to HEALTHCHECKING and launched its flow
C20_IdlePoolBeingHealthchecked ==
    /\ pools["p1"].status = MINION_POOL_STATUS_ALLOCATED
    /\ now = 1
    /\ cron = {}
    /\ locks = [p \in PoolIds |-> NoHolder]
    /\ Cardinality(PoolMachines(machines, "p1")) = 2
    /\ \A m \in PoolMachines(machines, "p1") :
          /\ machines[m].status = MINION_MACHINE_STATUS_HEALTHCHECKING
          /\ machines[m].last_used_at = 1
    /\ \E s \in FlowSlots :
          /\ flows[s].kind = "pool_refresh"
          /\ flows[s].pos = 1
    /\ out = NoOut

\* C21: for a pool with minimum_minions = maximum_minions, no
\* refresh_minion_pool call selects a machine for deallocation: its plan
\* holds no DeallocateMinionMachineTask and the call sets no machine to
\* DEALLOCATING
C21_FullPoolRefreshNeverDeallocates ==
    [][(/\ RefreshMinionPool("p1")
        /\ pools["p1"].minimum_minions = pools["p1"].maximum_minions)
       => /\ \A m \in MachineIds :
                machines'[m].status = MINION_MACHINE_STATUS_DEALLOCATING
                    => machines[m].status =
                           MINION_MACHINE_STATUS_DEALLOCATING
          /\ \A s \in FlowSlots :
                (flows[s] = NoFlow /\ flows'[s] # NoFlow)
                    => \A sf \in flows'[s].steps[1].subflows :
                          Head(sf.tasks) # "deallocate"]_vars

\* C21, witness: a pool with minimum_minions = maximum_minions = 1 is
\* ALLOCATED and owns two machines, one of which a refresh has set to
\* DEALLOCATING
C21_FullPoolMachineDeallocating ==
    /\ pools["p1"].status = MINION_POOL_STATUS_ALLOCATED
    /\ pools["p1"].minimum_minions = 1
    /\ pools["p1"].maximum_minions = 1
    /\ \E s \in FlowSlots : flows[s].kind = "pool_refresh"
    /\ \E m \in PoolMachines(machines, "p1") :
          machines[m].status = MINION_MACHINE_STATUS_DEALLOCATING

\* the machines of pool p a refresh at this time selects for deallocation:
\* the AVAILABLE machines that have expired, in the order of the rows, as
\* long as fewer than len(machines) - minimum_minions are selected before;
\* a machine that was never used has expired if never_used_expires says so
SelectedForDeallocation(p, never_used_expires) ==
    LET Expired(m) ==
            IF machines[m].last_used_at = NeverUsed
            THEN never_used_expires
            ELSE machines[m].last_used_at + pools[p].minion_max_idle_time
                     <= now
        candidates == {m \in AvailableMachines(machines, p) : Expired(m)}
    IN  {m \in candidates :
            Cardinality({n \in candidates : n < m})
                < Cardinality(PoolMachines(machines, p))
                      - pools[p].minimum_minions}

\* the refresh of ALLOCATED pool p in this step set the machines of
\* selected to DEALLOCATING and every other AVAILABLE machine of the pool
\* to HEALTHCHECKING, changed no other machine, and launched, when there is
\* one such machine or more, the flow that deallocates the former and
\* healthchecks the latter
RefreshedAs(p, selected) ==
    LET others == AvailableMachines(machines, p) \ selected
    IN  /\ machines' =
              [m \in MachineIds |->
                  IF m \in selected
                  THEN [machines[m] EXCEPT
                           !.status = MINION_MACHINE_STATUS_DEALLOCATING]
                  ELSE IF m \in others
                  THEN [machines[m] EXCEPT
                           !.status = MINION_MACHINE_STATUS_HEALTHCHECKING]
                  ELSE machines[m]]
        /\ IF AvailableMachines(machines, p) = {}
           THEN flows' = flows
           ELSE \E s \in FlowSlots :
                   /\ flows[s] = NoFlow
                   /\ flows'[s].kind = "pool_refresh"
                   /\ flows'[s].steps[1].subflows =
                          {DeallocateMinionMachineTask(p, m) :
                               m \in selected}
                          \cup {HealthcheckFlowForMinionMachine(p, m, None,
                                    MINION_MACHINE_STATUS_AVAILABLE) :
                                m \in others}
                   /\ \A t \in FlowSlots \ {s} : flows'[t] = flows[t]

\* C22, as stated: a refresh selects a machine for deallocation exactly
\* when it is AVAILABLE, its last_used_at + minion_max_idle_time <= now and
\* fewer than len(machines) - minimum_minions machines were selected before
\* it; the selected machines are set to DEALLOCATING, every other AVAILABLE
\* machine is set to HEALTHCHECKING and gets a healthcheck subflow
C22_RefreshSelectsIdleTooLong ==
    [][(/\ RefreshMinionPool("p1")
        /\ pools["p1"].status = MINION_POOL_STATUS_ALLOCATED)
       => RefreshedAs("p1", SelectedForDeallocation("p1", FALSE))]_vars

\* C22, amended: the same, a machine that was never used (last_used_at
\* not set) counting as expired
C22_RefreshSelectsIdleTooLongOrNeverUsed ==
    [][(/\ RefreshMinionPool("p1")
        /\ pools["p1"].status = MINION_POOL_STATUS_ALLOCATED)
       => RefreshedAs("p1", SelectedForDeallocation("p1", TRUE))]_vars

\* C22, witness: of two expired machines of a pool with minimum_minions =
\* 1, one never used, the refresh has set the first to DEALLOCATING and the
\* second to HEALTHCHECKING
C22_OneDeallocatingOneHealthchecking ==
    /\ pools["p1"].status = MINION_POOL_STATUS_ALLOCATED
    /\ pools["p1"].minimum_minions = 1
    /\ \E s \in FlowSlots : flows[s].kind = "pool_refresh" /\ flows[s].pos = 1
    /\ \E m, n \in PoolMachines(machines, "p1") :
          /\ m < n
          /\ machines[m].status = MINION_MACHINE_STATUS_DEALLOCATING
          /\ machines[m].last_used_at = NeverUsed
          /\ machines[n].status = MINION_MACHINE_STATUS_HEALTHCHECKING
          /\ machines[n].last_used_at + pools["p1"].minion_max_idle_time
                 <= now
          /\ machines[n].last_used_at # NeverUsed

\* C23: deallocate_minion_machine is idempotent: a call for a machine that
\* exists succeeds and leaves it AVAILABLE and allocated to no action,
\* every other row as it was; a call for a machine that a call before left
\* so succeeds and changes nothing in the store; a call for a machine id
\* without a row succeeds and changes nothing
C23_DeallocateMachineIdempotent ==
    [][/\ \A m \in MachineIds :
             (DeallocateMinionMachine(m) /\ ~MachineExists(m))
                 => /\ out' = NoOut
                    /\ UNCHANGED <<pools, machines, flows, releases>>
       /\ DeallocateMinionMachineLocked
             => LET m == releases.machine
                IN  /\ out' = NoOut
                    /\ pools' = pools
                    /\ machines'[m].status = MINION_MACHINE_STATUS_AVAILABLE
                    /\ machines'[m].allocated_action = None
                    /\ machines'[m].pool_id = machines[m].pool_id
                    /\ machines'[m].last_used_at = machines[m].last_used_at
                    /\ \A n \in MachineIds \ {m} :
                          machines'[n] = machines[n]
                    /\ (/\ machines[m].status =
                               MINION_MACHINE_STATUS_AVAILABLE
                        /\ machines[m].allocated_action = None)
                          => machines' = machines]_vars

\* C23, witness: a second deallocate_minion_machine has read a machine of
\* p1 that the first call left AVAILABLE (no machine starts AVAILABLE), and
\* is about to write it
C23_SecondCallInProgress ==
    /\ releases.machine # NoId
    /\ machines[releases.machine].status = MINION_MACHINE_STATUS_AVAILABLE
    /\ machines[releases.machine].allocated_action = None

\* deallocate_minion_machines_for_action(a) returns normally in this step
ReleaseReturns(a) ==
    \/ /\ DeallocateMinionMachinesForAction(a)
       /\ releases'.for_action[a] = NoRelease
    \/ /\ DeallocatePoolMachinesForAction(a)
       /\ releases'.for_action[a] = NoRelease
       /\ out'.kind # "error"

\* C24: when deallocate_minion_machines_for_action(A) returns, no machine
\* row references A; under each pool lock the machines it found
\* UNINITIALIZED are deleted, the others it found are AVAILABLE, allocated
\* to no action and keep their last_used_at, and every other row is
\* untouched
C24_ReleaseLeavesNoMachineOfAction ==
    [][\A a \in ActionIds :
          /\ ReleaseReturns(a) => ActionMachines(machines', a) = {}
          /\ (DeallocatePoolMachinesForAction(a) /\ out'.kind # "error")
                => LET block == Head(releases.for_action[a].todo)
                   IN  \A m \in MachineIds :
                          IF m \in block.delete
                          THEN ~MachineExists(m)'
                          ELSE IF m \in block.release
                          THEN machines'[m] =
                                   [machines[m] EXCEPT
                                       !.status =
                                           MINION_MACHINE_STATUS_AVAILABLE,
                                       !.allocated_action = None]
                          ELSE machines'[m] = machines[m]]_vars

\* C24, witness: the release for a1 is under its last pool lock while a
\* machine row allocated to a1, written by the action's allocation flow
\* after the release's query, is in none of the rows the release found
C24_ReleaseMissesMachineOfAction ==
    LET r == releases.for_action["a1"]
    IN  /\ r # NoRelease
        /\ r.pc = "pools"
        /\ Len(r.todo) = 1
        /\ \E m \in ActionMachines(machines, "a1") :
              m \notin Head(r.todo).delete \cup Head(r.todo).release

(***************************************************************************)
(* The refresh cron jobs.                                                  *)
(***************************************************************************)
\* the minutes of an hour a cron job can fire on
MinutesPerHour == 60
\* the refresh period used for one that is zero or negative
ShortestRefreshPeriod == 1
\* the refresh period used for one that is over an hour
FallbackRefreshPeriod == 10
\* the largest configured refresh period explored
MaxRefreshPeriod == 62
\* values of minion_pool_default_refresh_period_minutes, an integer option
\* with no range
RefreshPeriods == -1 .. MaxRefreshPeriod

\* MINION_POOL_REFRESH_CRON_JOB_NAME_FORMAT % (minion_pool.id, minute)
RefreshJobName(p, minute) == <<"pool", p, "refresh-minute", minute>>

\* the CronJob firing _trigger_pool_refresh for pool p on a minute of every
\* hour
RefreshJob(p, minute) ==
    [name |-> RefreshJobName(p, minute), minute |-> minute, pool |-> p]

\* the period _register_refresh_jobs_for_minion_pool uses for a configured
\* one
RefreshPeriod(configured) ==
    IF configured <= 0 THEN ShortestRefreshPeriod
    ELSE IF configured > MinutesPerHour THEN FallbackRefreshPeriod
    ELSE configured

\* a mutant: an hour holds one job more than ceil(60 / period_minutes)
RefreshesPerHourAndOne(period_minutes) ==
    MinutesPerHour \div period_minutes + 1

\* math.ceil(60 / period_minutes)
RefreshesPerHour(period_minutes) ==
    (MinutesPerHour + period_minutes - 1) \div period_minutes

\* the jobs of pool p in the order they are registered
RefreshJobs(p, configured) ==
    LET period_minutes == RefreshPeriod(configured)
    IN  [i \in 1 .. RefreshesPerHour(period_minutes) |->
            RefreshJob(p, period_minutes * (i - 1))]

\* Cron.register called for each job of a sequence in turn: the engine
\* keeps one job per name, the one registered last
CronRegisterAll(jobs, new) ==
    LET last == {i \in DOMAIN new :
                    \A k \in DOMAIN new : k > i => new[k].name # new[i].name}
    IN  {j \in jobs : \A i \in DOMAIN new : new[i].name # j.name}
            \cup {new[i] : i \in last}

\* the jobs of pool p in a cron engine
CronJobsOf(jobs, p) == {j \in jobs : j.pool = p}

\* _register_refresh_jobs_for_minion_pool, called as _init_cron calls it:
\* once for a pool, with no period given
RegisterRefreshJobsForMinionPool(p, configured) ==
    /\ PoolExists(p)
    /\ CronJobsOf(cron, p) = {}
    /\ cron' = CronRegisterAll(cron, RefreshJobs(p, configured))
    /\ out' = NoOut
    /\ UNCHANGED <<pools, machines, flows, calls, releases, now, locks>>

\* refresh jobs are registered for the pools of the store
RefreshJobsNext ==
    \E p \in PoolIds, configured \in RefreshPeriods :
        RegisterRefreshJobsForMinionPool(p, configured)

SpecRefreshJobs == InitAllocated /\ [][RefreshJobsNext]_vars

\* MinionManagerServerEndpoint.__init__ over the store as it is: a new cron
\* engine with no job; the call of _init_cron is commented out
ServiceStart ==
    /\ \A s \in FlowSlots : flows[s] = NoFlow
    /\ cron' = {}
    /\ out' = [NoOut EXCEPT !.kind = "service_start"]
    /\ UNCHANGED <<pools, machines, flows, calls, releases, now, locks>>

\* the service starts over a store with a pool, the pool is refreshed on
\* request, the tasks of the refresh flows run, time passes
ServiceStartNext ==
    \/ ServiceStart
    \/ RefreshNext

SpecServiceStart == InitPoolToRefresh /\ [][ServiceStartNext]_vars

\* C25: when the service has started, refresh cron jobs are registered for
\* every pool whose status is ALLOCATED and for no other pool
C25_StartRegistersJobsOfAllocatedPools ==
    out.kind = "service_start"
        => \A p \in PoolIds :
              (pools[p].status = MINION_POOL_STATUS_ALLOCATED)
                  <=> (CronJobsOf(cron, p) # {})

\* C25, witness: the service has started over a store where pool p1 is
\* ALLOCATED
C25_StartedWithAllocatedPool ==
    /\ out.kind = "service_start"
    /\ pools["p1"].status = MINION_POOL_STATUS_ALLOCATED

\* C26: a registration for pool p with configured period c uses P = 1 when
\* c <= 0, P = 10 when c > 60 and P = c otherwise; it registers one job for
\* each minute k * P with 0 <= k and k * P < 60 and no other job, each
\* minute within 0 .. 59, under names that differ whenever the pool or the
\* minute differs, and leaves the jobs of the other pools registered
C26_RegistersOneJobPerPeriodMinute ==
    [][\A p \in PoolIds, c \in RefreshPeriods :
          RegisterRefreshJobsForMinionPool(p, c)
              => LET P == IF c <= 0 THEN 1 ELSE IF c > 60 THEN 10 ELSE c
                     minutes == {k * P : k \in {k \in 0 .. 59 : k * P < 60}}
                     registered == RefreshJobs(p, c)
                 IN  /\ \A i, j \in DOMAIN registered :
                           i # j => registered[i].minute # registered[j].minute
                     /\ {registered[i].minute : i \in DOMAIN registered}
                            = minutes
                     /\ {j.minute : j \in CronJobsOf(cron', p)} = minutes
                     /\ Cardinality(CronJobsOf(cron', p))
                            = Cardinality(minutes)
                     /\ \A j \in CronJobsOf(cron', p) : j.minute \in 0 .. 59
                     /\ \A j1, j2 \in cron' :
                           (j1.name = j2.name)
                               <=> (j1.pool = j2.pool /\ j1.minute = j2.minute)
                     /\ \A q \in PoolIds \ {p} :
                           CronJobsOf(cron', q) = CronJobsOf(cron, q)]_vars

\* C26, witness: pool p1 has the seven jobs of a period of 9 minutes and
\* pool p2 the single job of a period of an hour
C26_PeriodsOfNineAndSixtyMinutes ==
    /\ {j.minute : j \in CronJobsOf(cron, "p1")}
           = {0, 9, 18, 27, 36, 45, 54}
    /\ {j.minute : j \in CronJobsOf(cron, "p2")} = {0}

\* a task of the pool allocation or deallocation flow in slot s fails
PoolFlowTaskFails(s) ==
    /\ flows[s].kind \in {"pool_allocation", "pool_deallocation"}
    /\ RunPoolTask(s, FALSE) \/ RunMachineTask(s, FALSE)

\* C27: when a task of a pool allocation or deallocation flow fails, the
\* flow is over, so it sets no further status, and it leaves the pool in
\* status ERROR, not in POOL_MAINTENANCE, an intermediate status, ALLOCATED
\* or DEALLOCATED
C27_FailedPoolFlowEndsInError ==
    [][\A s \in FlowSlots :
          PoolFlowTaskFails(s)
              => /\ flows'[s] = NoFlow
                 /\ PoolExists(flows[s].pool)
                       => pools'[flows[s].pool].status
                              = MINION_POOL_STATUS_ERROR]_vars

\* C27, witness: the allocation flow of p1 is over after one of its
\* AllocateMinionMachineTasks failed
C27_AllocationFlowFailedOnMachine ==
    /\ pools["p1"].status = MINION_POOL_STATUS_ERROR
    /\ NoFlowInFlight
    /\ \E m \in PoolMachines(machines, "p1") :
          machines[m].status = MINION_MACHINE_STATUS_ERROR_DEPLOYING

\* the status a successful allocation flow of a pool takes before status
MinionPoolStatusBefore(status, minimum_minions) ==
    IF status = MINION_POOL_STATUS_ALLOCATING_SHARED_RESOURCES
    THEN MINION_POOL_STATUS_VALIDATING_INPUTS
    ELSE IF status = MINION_POOL_STATUS_ALLOCATING_MACHINES
    THEN MINION_POOL_STATUS_ALLOCATING_SHARED_RESOURCES
    ELSE IF minimum_minions = 0
    THEN MINION_POOL_STATUS_ALLOCATING_SHARED_RESOURCES
    ELSE MINION_POOL_STATUS_ALLOCATING_MACHINES

\* C28: a pool allocation flow sets VALIDATING_INPUTS, then
\* ALLOCATING_SHARED_RESOURCES, then ALLOCATING_MACHINES, then ALLOCATED,
\* each over the status before it; its last task leaves the pool ALLOCATED
\* with exactly minimum_minions machines, each AVAILABLE; for a pool with
\* minimum_minions = 0 the flow holds no AllocateMinionMachineTask and
\* never sets ALLOCATING_MACHINES
C28_AllocationFlowStatusesAndMachines ==
    [][\A s \in FlowSlots :
          (flows[s].kind = "pool_allocation" /\ RunUpdateStatusTask(s))
              => LET p == flows[s].pool
                     status == flows[s].steps[flows[s].pos].status
                     minimum_minions == pools[p].minimum_minions
                 IN  /\ pools'[p].status = status
                     /\ status \in {MINION_POOL_STATUS_VALIDATING_INPUTS,
                            MINION_POOL_STATUS_ALLOCATING_SHARED_RESOURCES,
                            MINION_POOL_STATUS_ALLOCATING_MACHINES,
                            MINION_POOL_STATUS_ALLOCATED}
                     /\ status # MINION_POOL_STATUS_VALIDATING_INPUTS
                           => pools[p].status =
                                  MinionPoolStatusBefore(status,
                                                         minimum_minions)
                     /\ minimum_minions = 0
                           => /\ status #
                                     MINION_POOL_STATUS_ALLOCATING_MACHINES
                              /\ \A i \in DOMAIN flows[s].steps :
                                    flows[s].steps[i].subflows = {}
                     /\ flows'[s] = NoFlow
                           => /\ status = MINION_POOL_STATUS_ALLOCATED
                              /\ Cardinality(PoolMachines(machines', p))
                                     = minimum_minions
                              /\ \A m \in PoolMachines(machines', p) :
                                    /\ machines'[m].status =
                                           MINION_MACHINE_STATUS_AVAILABLE
                                    /\ machines'[m].allocated_action = None]_vars

\* C28, witness: the allocation flows of p1 are over and have left it
\* ALLOCATED with more AVAILABLE machines than its minimum_minions
C28_AllocatedOverMinimum ==
    /\ pools["p1"].status = MINION_POOL_STATUS_ALLOCATED
    /\ NoFlowInFlight
    /\ Cardinality(PoolMachines(machines, "p1"))
           > pools["p1"].minimum_minions
    /\ \A m \in PoolMachines(machines, "p1") :
          machines[m].status = MINION_MACHINE_STATUS_AVAILABLE

(***************************************************************************)
(* The writes of a per-pool reservation when the store raises.             *)
(***************************************************************************)
\* what the store raises when a write fails
StoreError == "DBError"

\* the faults of the store during the writes of one per-pool reservation:
\* no write raises, the marking of the pre-existing machines raises, or
\* the adding of the new row numbered index raises; revert_fails tells
\* whether the marking done by the rollback raises as well
StoreFaults ==
    [at : {"none", "mark", "add"}, index : 1 .. MaxMachines,
     revert_fails : BOOLEAN]

\* the handler of the writes: new_machine_db_entries_added holds the ids
\* of the rows added, so the m.id of its first log statement raises
\* AttributeError as soon as a row was added, before anything is rolled
\* back; with no row added the pre-existing machines are set AVAILABLE
\* again, a failure of which is logged, and the error is raised again
ReservationRollback(mchs, existing, added, fault, t) ==
    IF added # {}
    THEN [error |-> "AttributeError", machines |-> mchs]
    ELSE [error |-> StoreError,
          machines |->
              IF fault.revert_fails THEN mchs
              ELSE SetAllocationStatuses(
                       mchs, existing, None,
                       MINION_MACHINE_STATUS_AVAILABLE, FALSE, t)]

\* the try block of _make_minion_machine_allocation_subflow_for_action:
\* the pre-existing machines are marked in one batch, then the new rows
\* are added one by one in the order of the instances
ReservationWrites(mchs, p, action_id, existing, to_add, fault, t) ==
    LET marked == SetAllocationStatuses(
                      mchs, existing, action_id,
                      MINION_MACHINE_STATUS_IN_USE, TRUE, t)
        added == IF fault.at = "add"
                 THEN {m \in to_add :
                          Cardinality({k \in to_add : k < m})
                              < fault.index - 1}
                 ELSE to_add
        with_added == [m \in MachineIds |->
                          IF m \in added THEN NewMinionMachine(p, action_id)
                          ELSE marked[m]]
    IN  IF fault.at = "mark"
        THEN ReservationRollback(mchs, existing, {}, fault, t)
        ELSE IF fault.at = "add" /\ added # to_add
        THEN ReservationRollback(with_added, existing, added, fault, t)
        ELSE [error |-> None, machines |-> with_added]

\* instances an action asks one pool for
PoolInstanceLists ==
    {<<"vm1">>, <<"vm1", "vm2">>, <<"vm1", "vm2", "vm3">>}

\* _make_minion_machine_allocation_subflow_for_action for action a under
\* the lock of pool p, with a store that may raise
MakeMachineAllocationSubflowWithFaults(a, p, instances, fault) ==
    LET made == InstanceMinionAllocations(
                    machines, p, instances, NoAllocations,
                    MachineIds \ {m \in MachineIds : MachineExists(m)})
        chosen == Values(made.allocations)
        existing == {m \in chosen : MachineExists(m)}
        written == ReservationWrites(
                       machines, p, a, existing, chosen \ existing, fault,
                       now)
    IN  /\ PoolExists(p)
        /\ PoolCanAccommodate(machines, pools, p, instances)
        /\ made.error = None
        /\ machines' = written.machines
        /\ out' = IF written.error # None
                  THEN [Raise(written.error) EXCEPT !.action = a]
                  ELSE [NoOut EXCEPT !.kind = "returned", !.action = a]
        /\ UNCHANGED <<pools, flows, calls, releases, now, cron, locks>>

\* per-pool reservations against p1 over a store that may raise
StoreFaultsNext ==
    \E a \in ActionIds, instances \in PoolInstanceLists,
       fault \in StoreFaults :
        MakeMachineAllocationSubflowWithFaults(a, "p1", instances, fault)

SpecStoreFaults == InitPoolOfAnyShape /\ [][StoreFaultsNext]_vars

\* C29: when a write of a per-pool reservation raises, the error that
\* leaves the procedure is the one the store raised and no row added by
\* the procedure is left; unless the rollback's own write raises, the
\* machines of the pool that the procedure chose are AVAILABLE with no
\* action and every other row is as it was
C29_FailedWritesAreRolledBack ==
    [][\A a \in ActionIds, instances \in PoolInstanceLists,
          fault \in StoreFaults :
          (/\ MakeMachineAllocationSubflowWithFaults(
                  a, "p1", instances, fault)
           /\ out'.kind = "error")
              => /\ out'.error = StoreError
                 /\ \A m \in MachineIds :
                       ~MachineExists(m) => ~MachineExists(m)'
                 /\ ~fault.revert_fails
                       => \A m \in MachineIds :
                             MachineExists(m)
                                 => /\ machines'[m].status = machines[m].status
                                    /\ machines'[m].allocated_action
                                           = machines[m].allocated_action]_vars

\* C29, witness: a per-pool reservation has raised and left behind a
\* machine it marked IN_USE for a1 and a row it added for a1
C29_RaisedWithRowsLeft ==
    /\ out.kind = "error"
    /\ out.action = "a1"
    /\ \E m, n \in PoolMachines(machines, "p1") :
          /\ machines[m].status = MINION_MACHINE_STATUS_IN_USE
          /\ machines[m].allocated_action = "a1"
          /\ machines[n].status = MINION_MACHINE_STATUS_UNINITIALIZED
          /\ machines[n].allocated_action = "a1"

\* C30: when the healthcheck of a machine passes, its reallocation subflow
\* never runs: the machine's subflow is over, while the subflows of the
\* other machines are still to run as they were and, in the flow of an
\* action, the confirmation task is still to run; when the healthcheck
\* fails, the DeallocateMinionMachineTask and the AllocateMinionMachineTask
\* of the same machine are next in its subflow, the other subflows being
\* as they were
C30_ReallocationIffHealthcheckFailed ==
    [][\A s \in FlowSlots, ok \in BOOLEAN :
          \A sf \in UNION {st.subflows : st \in RemainingSteps(flows[s])} :
             (/\ flows[s] # NoFlow
              /\ flows[s].steps[flows[s].pos].t = "unordered"
              /\ sf \in flows[s].steps[flows[s].pos].subflows
              /\ RunHealthcheckTask(s, sf, ok))
                 => LET siblings ==
                            flows[s].steps[flows[s].pos].subflows \ {sf}
                        left == UNION {st.subflows :
                                          st \in RemainingSteps(flows'[s])}
                    IN  /\ flows[s].kind = ActionAllocation
                              => \E st \in RemainingSteps(flows'[s]) :
                                    st.t = "confirm"
                        /\ IF ok
                           THEN /\ left = siblings
                                /\ \A x \in left : x.m # sf.m
                           ELSE /\ left = siblings \cup
                                       {[sf EXCEPT !.tasks =
                                            <<"deallocate", "allocate">>]}
                                /\ machines' = machines]_vars

\* C30, witness: in the allocation flow of a1 the healthcheck of one
\* machine has failed and its reallocation is next, while the subflow of
\* another machine of the flow is still to run
C30_ReallocatingBesideSibling ==
    \E s \in FlowSlots :
        /\ flows[s].kind = ActionAllocation
        /\ \E sf, other \in CurrentSubflows(flows[s]) :
              /\ sf.realloc # <<>>
              /\ sf.tasks = sf.realloc
              /\ other.m # sf.m

\* request r asks for OSMorphing minions only and maps an instance to its
\* destination pool for OSMorphing
OSMorphingOnlyInDestinationPool(r) ==
    /\ ~r.include_transfer_minions
    /\ r.include_osmorphing_minions
    /\ r.destination_minion_pool_id # None
    /\ \E i \in Values(r.instances) :
          OSMorphingPoolOf(r, i) = r.destination_minion_pool_id

\* C31: a call that asks for OSMorphing minions only, for instances mapped
\* to the destination pool of the action, does not fail, and when it
\* returns every such instance has an OSMorphing minion, a machine of
\* that pool reserved for the action
C31_OSMorphingOnlyReservesInDestinationPool ==
    [][\A a \in ActionIds :
          /\ (calls'[a].pc = "cleanup" /\ calls[a].pc # "cleanup")
                => ~OSMorphingOnlyInDestinationPool(calls'[a].action)
          /\ (/\ out'.kind = "returned"
              /\ out'.action = a
              /\ OSMorphingOnlyInDestinationPool(out'.request))
                => LET r == out'.request
                   IN  \A i \in Values(r.instances) :
                          OSMorphingPoolOf(r, i) = r.destination_minion_pool_id
                             => out'.allocations[i].osmorphing_minion_id
                                    \in ActionPoolMachines(machines', a,
                                            r.destination_minion_pool_id)]_vars

\* C31, witness: the call for an action that asks for OSMorphing minions
\* only, in its destination pool, is in its exception handler over a
\* KeyError
C31_OSMorphingOnlyCallFailed ==
    \E a \in ActionIds :
        /\ calls[a].pc = "cleanup"
        /\ calls[a].error = "KeyError"
        /\ OSMorphingOnlyInDestinationPool(calls[a].action)


\* a step of allocate_minion_machines_for_*: the call's entry or one of its
\* per-pool blocks, run under that pool's lock
ReservationStep(a) ==
    \/ \E action \in BringUpActions : AllocateMinionMachines(a, action)
    \/ ContinueAllocateMinionMachines(a)

\* C32: a step of a reservation writes a machine row (inserts it or marks it
\* IN_USE) only in a pool whose status is ALLOCATED while the pool's lock
\* is held; in any other pool it leaves every row as it was
C32_ReservationWritesOnlyInAllocatedPools ==
    [][\A a \in ActionIds :
          ReservationStep(a) =>
              \A m \in MachineIds :
                  machines'[m] # machines[m] =>
                      pools[machines'[m].pool_id].status
                          = MINION_POOL_STATUS_ALLOCATED]_vars

\* a reservation has returned with a machine of the action in a pool that is
\* not ALLOCATED
C32_ReservedInPoolNotAllocated ==
    /\ out.kind = "returned"
    /\ \E m \in ActionMachines(machines, "a1") :
          /\ machines[m].pool_id = "p1"
          /\ pools["p1"].status # MINION_POOL_STATUS_ALLOCATED


\* C33: deallocate_minion_machine changes a machine only from IN_USE to
\* AVAILABLE: a machine that is not IN_USE while the pool lock is held,
\* whoever set that status since the call read the machine, is left as it
\* is
C33_DeallocateMachineOnlyFromInUse ==
    [][DeallocateMinionMachineLocked =>
          LET m == releases.machine
          IN  machines[m].status # MINION_MACHINE_STATUS_IN_USE
                  => machines'[m] = machines[m]]_vars

\* deallocate_minion_machine has read a machine and waits for the pool lock
\* while the machine is UNINITIALIZED, HEALTHCHECKING, DEALLOCATING,
\* ERROR_DEPLOYING or in ERROR
C33_LockedOnMachineNotInUse ==
    /\ releases.machine # NoId
    /\ machines[releases.machine].status
           \in {MINION_MACHINE_STATUS_UNINITIALIZED,
                MINION_MACHINE_STATUS_HEALTHCHECKING,
                MINION_MACHINE_STATUS_DEALLOCATING,
                MINION_MACHINE_STATUS_ERROR_DEPLOYING,
                MINION_MACHINE_STATUS_ERROR}


\* C34: when a failed allocate_minion_machines_for_* call for action A
\* ends, every machine that was IN_USE before the call, for A from an
\* earlier reservation or for another action, has the status and the
\* allocated_action it had before the call
C34_FailedCallKeepsEarlierReservations ==
    [][\A a \in ActionIds :
          (/\ calls[a].error # None
           /\ calls[a].pc # "idle"
           /\ calls'[a] = NoCall) =>
              \A m \in MachineIds :
                  calls[a].before[m].status = MINION_MACHINE_STATUS_IN_USE =>
                      /\ machines'[m].status = calls[a].before[m].status
                      /\ machines'[m].allocated_action
                             = calls[a].before[m].allocated_action]_vars

\* a call for an action has raised while a machine was IN_USE for that
\* action since before the call
C34_FailedWithEarlierReservation ==
    \E a \in ActionIds :
        /\ calls[a].pc = "cleanup"
        /\ \E m \in MachineIds :
              /\ calls[a].before[m].status = MINION_MACHINE_STATUS_IN_USE
              /\ calls[a].before[m].allocated_action = a


\* the allocation and deallocation flows of pool p in flight
PoolFlowsInFlight(p) ==
    {s \in FlowSlots :
        /\ flows[s].kind \in {"pool_allocation", "pool_deallocation"}
        /\ flows[s].pool = p}

\* C35: with no forced call, in every reachable state at most one
\* allocation or deallocation flow is in flight for a pool: an
\* allocate_minion_pool issued while the flow create_minion_pool launched
\* is in flight is rejected
C35_OnePoolFlowInFlight ==
    \A p \in PoolIds : Cardinality(PoolFlowsInFlight(p)) <= 1

\* allocate_minion_pool has been accepted for p1 while the allocation flow
\* launched by create_minion_pool has not run its first task: both flows
\* are at their first step
C35_AllocateAcceptedBesideCreateFlow ==
    /\ pools["p1"].status = MINION_POOL_STATUS_POOL_MAINTENANCE
    /\ Cardinality(PoolFlowsInFlight("p1")) = 2
    /\ \A s \in PoolFlowsInFlight("p1") :
          flows[s].kind = "pool_allocation" /\ flows[s].pos = 1


\* C36: deallocate_minion_machines_for_action deletes, under a pool lock,
\* only machine rows whose status is UNINITIALIZED at that moment; a
\* machine its allocation flow has advanced since the call's query is
\* released: AVAILABLE and allocated to no action
C36_ReleaseDeletesOnlyUninitialized ==
    [][\A a \in ActionIds :
          DeallocatePoolMachinesForAction(a) =>
              \A m \in MachineIds :
                  (/\ MachineExists(m)
                   /\ machines[m].status
                          # MINION_MACHINE_STATUS_UNINITIALIZED
                   /\ m \in Head(releases.for_action[a].todo).delete)
                      => /\ machines'[m].status
                                = MINION_MACHINE_STATUS_AVAILABLE
                         /\ machines'[m].allocated_action = None]_vars

\* a release is about to take the lock of a pool in which a machine it
\* read as UNINITIALIZED has since been deployed and is IN_USE
C36_ReadUninitializedNowInUse ==
    \E a \in ActionIds :
        /\ releases.for_action[a].pc = "pools"
        /\ \E m \in Head(releases.for_action[a].todo).delete :
              machines[m].status = MINION_MACHINE_STATUS_IN_USE


(***************************************************************************)
(* A refresh next to a reservation in the same pool.                       *)
(***************************************************************************)
\* pool p1 is refreshed while machines of it are reserved for action a1;
\* the tasks of the flows of both run in any order
RefreshAndReserveNext ==
    \/ RefreshMinionPool("p1")
    \/ \E s \in FlowSlots, ok \in BOOLEAN : RunMachineTask(s, ok)
    \/ \E action \in BringUpActions : ReserveMachines("a1", action)
    \/ CallNext({"a1"})
    \/ \E s \in FlowSlots : RunConfirmTask(s)

SpecRefreshAndReserve == InitPoolToRefresh /\ [][RefreshAndReserveNext]_vars

\* the machines the refresh flows in flight hold
RefreshHeld ==
    UNION {FlowMachineIds(flows[s]) :
              s \in {t \in FlowSlots : flows[t].kind = "pool_refresh"}}

\* the machines a refresh has set to HEALTHCHECKING or DEALLOCATING
BeingRefreshed(mchs) ==
    {m \in MachineIds :
        mchs[m].status \in {MINION_MACHINE_STATUS_HEALTHCHECKING,
                            MINION_MACHINE_STATUS_DEALLOCATING}}

\* C37: in any interleaving of refresh_minion_pool and a reservation on the
\* same pool, a step of the reservation marks IN_USE, or maps to an
\* instance, no machine that is HEALTHCHECKING or DEALLOCATING or that a
\* refresh flow holds, and a refresh selects for healthcheck or
\* deallocation no machine that is IN_USE or reserved for an action
C37_RefreshAndReservationDisjoint ==
    [][/\ \A a \in ActionIds :
             ReservationStep(a) =>
                 LET marked == {m \in MachineIds :
                                   /\ machines'[m] # machines[m]
                                   /\ machines'[m].allocated_action = a}
                     mapped == (AllocationIds(calls'[a].allocations)
                                \cup AllocationIds(out'.allocations))
                               \ AllocationIds(calls[a].allocations)
                 IN  (marked \cup mapped)
                         \cap (BeingRefreshed(machines) \cup RefreshHeld) = {}
       /\ RefreshMinionPool("p1") =>
             \A m \in BeingRefreshed(machines') \ BeingRefreshed(machines) :
                 /\ machines[m].status = MINION_MACHINE_STATUS_AVAILABLE
                 /\ machines[m].allocated_action = None
                 /\ \A a \in ActionIds : m \notin ReservedFor(a)]_vars

\* a reservation has marked a machine of p1 IN_USE for a1 while a refresh
\* flow holds another machine of p1, which is HEALTHCHECKING or
\* DEALLOCATING
C37_ReservedBesideARefresh ==
    /\ \E m \in PoolMachines(machines, "p1") :
          /\ machines[m].status = MINION_MACHINE_STATUS_IN_USE
          /\ machines[m].allocated_action = "a1"
    /\ RefreshHeld \cap BeingRefreshed(machines) # {}


(***************************************************************************)
(* The pool locks.                                                         *)
(***************************************************************************)
\* the operations that take pool locks one after another
Reservation(a) == [op |-> "allocate_minion_machines", action |-> a]

ActionRelease(a) ==
    [op |-> "deallocate_minion_machines_for_action", action |-> a]

Operations == {Reservation(a) : a \in ActionIds}
              \cup {ActionRelease(a) : a \in ActionIds}

\* the pool whose lock operation o takes next
\* (with minion_manager_utils.get_minion_pool_lock(...)), or None
WantsLock(o) ==
    IF o.op = "allocate_minion_machines"
    THEN LET c == calls[o.action]
         IN  IF c.pc = "running" /\ c.blocks # <<>>
             THEN IF Head(c.blocks).role = "reuse" THEN None
                  ELSE Head(c.blocks).pool
             ELSE IF c.pc \in {"cleanup_pools", "deallocate_pools"}
             THEN Head(c.todo).pool
             ELSE None
    ELSE LET r == releases.for_action[o.action]
         IN  IF r.pc = "pools" THEN Head(r.todo).pool ELSE None

\* where operation o is: its position and what it has left to do
Position(o) ==
    IF o.op = "allocate_minion_machines"
    THEN <<calls[o.action].pc, Len(calls[o.action].blocks),
           Len(calls[o.action].todo)>>
    ELSE <<releases.for_action[o.action].pc, 0,
           Len(releases.for_action[o.action].todo)>>

\* the position of an operation that has left a with block
Left == <<"left", 0, 0>>

\* the pool locks operation o holds
LocksHeldBy(o) == {p \in PoolIds : locks[p].by = o}

\* operation o has run the body of a with block and is at its end
AtEndOfWith(o) ==
    \E p \in LocksHeldBy(o) :
        locks[p].entered # Left /\ locks[p].entered # Position(o)

\* operation o is inside the with block of the pool it works on next
InsideWith(o) ==
    /\ WantsLock(o) # None
    /\ locks[WantsLock(o)].by = o
    /\ locks[WantsLock(o)].entered = Position(o)

\* a with block whose lock is still held when the operation goes on
PoolLocksKept(lks, o) ==
    [p \in PoolIds |->
        IF lks[p].by = o THEN [lks[p] EXCEPT !.entered = Left] ELSE lks[p]]

\* the end of a with block, on a normal and on an error exit: the lock is
\* released
PoolLocksReleased(lks, o) ==
    [p \in PoolIds |-> IF lks[p].by = o THEN NoHolder ELSE lks[p]]

\* operation o enters a with block: it waits until the lock is free
EnterPoolLock(o) ==
    /\ WantsLock(o) # None
    /\ ~AtEndOfWith(o)
    /\ locks[WantsLock(o)] = NoHolder
    /\ locks' = [locks EXCEPT ![WantsLock(o)] =
                    [by |-> o, entered |-> Position(o)]]
    /\ out' = NoOut
    /\ UNCHANGED <<pools, machines, flows, calls, releases, now, cron>>

\* operation o leaves a with block
ExitPoolLock(o) ==
    /\ AtEndOfWith(o)
    /\ locks' = PoolLocksReleased(locks, o)
    /\ out' = NoOut
    /\ UNCHANGED <<pools, machines, flows, calls, releases, now, cron>>

\* allocate_minion_machines_for_* is called for action a: nothing is
\* reserved yet
BeginAllocateMinionMachines(a, action) ==
    /\ calls[a] = NoCall
    /\ HoldsNothing(a)
    /\ LocksHeldBy(Reservation(a)) = {}
    /\ calls' = [calls EXCEPT ![a] =
           [NoCall EXCEPT
               !.pc = "running",
               !.action = action,
               !.before = machines,
               !.blocks = ReservationBlocks(action),
               !.allocations =
                   [i \in Values(action.instances) |->
                       [origin_minion_id |-> NoId,
                        destination_minion_id |-> NoId,
                        osmorphing_minion_id |-> NoId]]]]
    /\ out' = NoOut
    /\ UNCHANGED <<pools, machines, flows, releases, now, cron, locks>>

\* the call of action a runs the body of the with block it is in
ReservationUnderLock(a) ==
    /\ InsideWith(Reservation(a))
    /\ \/ ContinueAllocateMinionMachines(a)
       \/ CleanupPool(a)
       \/ HandlerDeallocatePool(a)

\* the call of action a runs a part that takes no lock
ReservationOutsideLocks(a) ==
    /\ WantsLock(Reservation(a)) = None
    /\ ~AtEndOfWith(Reservation(a))
    /\ \/ ContinueAllocateMinionMachines(a)
       \/ CleanupQuery(a)
       \/ HandlerDeallocateQuery(a)
       \/ ReportAllocationError(a)

\* deallocate_minion_machines_for_action is called for action a
BeginActionRelease(a) ==
    /\ LocksHeldBy(ActionRelease(a)) = {}
    /\ DeallocateMinionMachinesForAction(a)

\* deallocate_minion_machines_for_action runs the body of the with block it
\* is in
ActionReleaseUnderLock(a) ==
    /\ InsideWith(ActionRelease(a))
    /\ DeallocatePoolMachinesForAction(a)

\* the transfer actions of concurrent reservations over both pools: for a1
\* p1 then p2, and one that fails in p2 after it has reserved in p1; for
\* a2 p2 then p1, and one that reuses its destination minion
LockingActions(a) ==
    IF a = "a1"
    THEN {Migration(<<"vm1">>, "p1", "p2", <<>>, TRUE, FALSE),
          Migration(<<"vm1", "vm2">>, "p1", "p2", <<>>, TRUE, FALSE)}
    ELSE {Migration(<<"vm1">>, "p2", "p1", <<>>, TRUE, FALSE),
          Migration(<<"vm1">>, None, "p1",
                    <<[instance |-> "vm1", pool |-> "p1"]>>, TRUE, TRUE)}

\* concurrent reservations and action-wide releases, lock by lock
PoolLocksNext ==
    \/ \E a \in ActionIds :
          \E action \in LockingActions(a) :
              BeginAllocateMinionMachines(a, action)
    \/ \E o \in Operations : EnterPoolLock(o)
    \/ \E o \in Operations : ExitPoolLock(o)
    \/ \E a \in ActionIds : ReservationUnderLock(a)
    \/ \E a \in ActionIds : ReservationOutsideLocks(a)
    \/ \E a \in ActionIds : BeginActionRelease(a)
    \/ \E a \in ActionIds : ActionReleaseUnderLock(a)

SpecPoolLocks == InitAllocated /\ [][PoolLocksNext]_vars

\* operation o waits for a lock another operation holds
WaitsForLock(o) ==
    /\ WantsLock(o) # None
    /\ ~AtEndOfWith(o)
    /\ locks[WantsLock(o)].by \notin {NoOperation, o}

\* C38: in every reachable state an operation holds at most one pool lock,
\* and an operation that waits for a pool lock holds none: no operation
\* holds a lock while it waits for another, so the operations cannot
\* deadlock
C38_AtMostOnePoolLockHeld ==
    \A o \in Operations :
        /\ Cardinality(LocksHeldBy(o)) <= 1
        /\ WaitsForLock(o) => LocksHeldBy(o) = {}

\* the reservations of a1 and a2 each hold the lock of one pool and are at
\* the end of its with block, and each takes the lock of the other pool
\* next
C38_EachTakesTheOthersLockNext ==
    /\ LocksHeldBy(Reservation("a1")) = {"p1"}
    /\ LocksHeldBy(Reservation("a2")) = {"p2"}
    /\ WantsLock(Reservation("a1")) = "p2"
    /\ WantsLock(Reservation("a2")) = "p1"


(***************************************************************************)
(* The pool flows under fair scheduling.                                   *)
(***************************************************************************)
\* the task of flow s that is next runs, and succeeds or fails
RunFlowTask(s) ==
    \/ RunUpdateStatusTask(s)
    \/ \E ok \in BOOLEAN : RunPoolTask(s, ok)
    \/ \E ok \in BOOLEAN : RunMachineTask(s, ok)

\* pool p1 is created, allocated and deallocated, with and without force,
\* while the tasks of its flows run
PoolMaintenanceNext ==
    \/ \E shape \in PoolShapes, skip_allocation \in BOOLEAN :
          CreateMinionPool("p1", shape, skip_allocation)
    \/ \E launched \in BOOLEAN : AllocateMinionPool("p1", launched)
    \/ \E force \in BOOLEAN, launched \in BOOLEAN :
          DeallocateMinionPool("p1", force, launched)
    \/ \E s \in FlowSlots : RunFlowTask(s)

\* the executor of the TaskFlow runner runs the next task of every flow in
\* flight sooner or later
SpecPoolMaintenance ==
    /\ Init
    /\ [][PoolMaintenanceNext]_vars
    /\ \A s \in FlowSlots : WF_vars(RunFlowTask(s))

\* C39: a pool that allocate_minion_pool or deallocate_minion_pool has set
\* to POOL_MAINTENANCE eventually is ALLOCATED, DEALLOCATED or in ERROR
C39_MaintenanceEnds ==
    (pools["p1"].status = MINION_POOL_STATUS_POOL_MAINTENANCE)
        ~> (pools["p1"].status \in {MINION_POOL_STATUS_ALLOCATED,
                                    MINION_POOL_STATUS_DEALLOCATED,
                                    MINION_POOL_STATUS_ERROR})

\* deallocate_minion_pool has been accepted for an ALLOCATED pool with a
\* machine: the pool is in POOL_MAINTENANCE and its deallocation flow has
\* not run a task yet
C39_DeallocationAccepted ==
    /\ pools["p1"].status = MINION_POOL_STATUS_POOL_MAINTENANCE
    /\ PoolMachines(machines, "p1") # {}
    /\ \E s \in FlowSlots :
          flows[s].kind = "pool_deallocation" /\ flows[s].pos = 1


(***************************************************************************)
(* OSMorphing pools mapped to instances the action does not have.          *)
(***************************************************************************)
\* migrations to pool p1 whose OSMorphing mappings name an instance that
\* is not theirs (vm2 for a migration of vm1, vm3 for one of vm1 and vm2),
\* with pool p2 or with the destination pool, beside the mapping of vm1;
\* and two that map vm1 only
AbsentInstanceActions ==
    {Migration(<<"vm1">>, None, "p1",
               <<[instance |-> "vm2", pool |-> "p2"]>>, TRUE, TRUE),
     Migration(<<"vm1", "vm2">>, None, "p1",
               <<[instance |-> "vm3", pool |-> "p2"]>>, TRUE, TRUE),
     Migration(<<"vm1">>, None, "p1",
               <<[instance |-> "vm1", pool |-> "p2"],
                 [instance |-> "vm2", pool |-> "p1"]>>, TRUE, TRUE),
     Migration(<<"vm1">>, None, "p1",
               <<[instance |-> "vm1", pool |-> "p2"]>>, TRUE, TRUE),
     Migration(<<"vm1", "vm2">>, None, "p1",
               <<[instance |-> "vm1", pool |-> "p2"]>>, TRUE, TRUE)}

\* machines are reserved for action a1, the calls and the flows run
AbsentInstancesNext ==
    \/ \E action \in AbsentInstanceActions : ReserveMachines("a1", action)
    \/ CallNext({"a1"})
    \/ ActionFlowNext

SpecAbsentInstances == InitAllocated /\ [][AbsentInstancesNext]_vars

\* the action dict of action a as validate_minion_pool_selections_for_action
\* gets it: a transfer from endpoint e1 to endpoint e2
SelectionsOf(a, r) ==
    [id |-> a, origin_endpoint_id |-> "e1", destination_endpoint_id |-> "e2",
     origin_minion_pool_id |-> r.origin_minion_pool_id,
     destination_minion_pool_id |-> r.destination_minion_pool_id,
     instances |-> r.instances,
     instance_osmorphing_minion_pool_mappings |->
         r.instance_osmorphing_minion_pool_mappings]

\* the action maps an OSMorphing pool to an instance it does not have
MapsAbsentInstance(r) ==
    \E k \in DOMAIN r.instance_osmorphing_minion_pool_mappings :
        r.instance_osmorphing_minion_pool_mappings[k].instance
            \notin Values(r.instances)

\* C40: a reservation for an action that passes validation and maps an
\* OSMorphing pool to an instance it does not have raises nothing, and
\* when it returns the machines of the action are the minions of its own
\* instances: none is reserved or created for the absent instance
C40_AbsentInstanceMappingsIgnored ==
    [][\A a \in ActionIds :
          /\ (/\ calls'[a].pc = "cleanup"
              /\ calls[a].pc # "cleanup"
              /\ MapsAbsentInstance(calls'[a].action))
                 => MinionPoolSelectionsError(
                        pools, SelectionsOf(a, calls'[a].action)) # None
          /\ (/\ out'.kind = "returned"
              /\ out'.action = a
              /\ MapsAbsentInstance(out'.request))
                 => /\ DOMAIN out'.allocations = Values(out'.request.instances)
                    /\ ActionMachines(machines', a)
                           = AllocationIds(out'.allocations)]_vars

\* a reservation for an action that passes validation and maps pool p2 to
\* an absent instance has raised KeyError with a machine of p2 marked for
\* the action
C40_RaisedForAbsentInstance ==
    \E a \in ActionIds :
        /\ calls[a].pc = "cleanup"
        /\ calls[a].error = "KeyError"
        /\ MapsAbsentInstance(calls[a].action)
        /\ MinionPoolSelectionsError(
               pools, SelectionsOf(a, calls[a].action)) = None
        /\ ActionPoolMachines(machines, a, "p2") # {}

====
